---- MODULE Spec2Model ----
(***************************************************************************)
(* Model of Quant-oracle: the indicators, the signal classifier and the    *)
(* pipeline run_oracle_analysis (backend/oracle.py), the trend analysis    *)
(* (backend/trend_analysis.py), the trade simulator, its metrics and its   *)
(* report (backend/backtest.py), the configuration check                   *)
(* (backend/config.py) and the caller analyze_symbol                       *)
(* (backend/api_wrapper.py).                                               *)
(*                                                                         *)
(* Python floats are modelled as exact rationals <<numerator,              *)
(* denominator>> in lowest terms with a positive denominator; NaN is the   *)
(* pair <<0, 0>>.  Floating-point rounding is therefore not part of the    *)
(* model.  Columns of a trade dict that never influence control flow or    *)
(* the accounting (entry_time, exit_time, entry_deviation, exit_deviation, *)
(* pnl_pct) are left out of the records.                                   *)
(***************************************************************************)
EXTENDS Integers, Sequences, FiniteSets, TLC

VARIABLES
    fee_pct,         \* simulate_trades: the argument fee_pct
    use_confidence,  \* simulate_trades: argument use_confidence
    n,               \* simulate_trades: len(df)
    i,               \* simulate_trades: number of rows the loop has processed
    df,              \* simulate_trades: the rows of df read so far (df.iloc[:i])
    capital,         \* simulate_trades: capital
    position,        \* simulate_trades: position, "NONE" for None
    entry_price,     \* simulate_trades: entry_price
    entry_bar,       \* simulate_trades: entry_bar
    position_size,   \* simulate_trades: position_size
    trades,          \* simulate_trades: trades, a list of dicts
    nupdates,        \* history: how often trades[k].update() was called
    equity_curve,    \* simulate_trades: equity_curve
    pc,              \* simulate_trades: "idle", "loop", "stats", "done"
    result,          \* simulate_trades: the returned dict
    frame,           \* generate_signals_rolling: df, a sequence of rows
    k,               \* generate_signals_rolling: loop index i
    sigpc,           \* generate_signals_rolling: "idle", "init", "loop", "done",
                     \* and "reported" once generate_signal has returned
    oracle_output,   \* generate_signal: the returned dict
    args,            \* run_oracle_analysis: the arguments vwap_period,
                     \* fft_period, sigma_threshold, reversal_threshold_percent
    indpc,           \* calculate_vwap_and_deviation and calculate_fft_phase:
                     \* "idle", "vwap", "fft", "fftloop", "done"
    fi,              \* calculate_fft_phase: loop index i
    entry,           \* the caller of run_oracle_analysis: "main" for the
                     \* __main__ block of oracle.py, "analyze_symbol" for
                     \* api_wrapper.analyze_symbol, "none" for a direct call
    config,          \* the values of the module config
    runpc,           \* run_oracle_analysis and its caller: "idle", "start",
                     \* "validated", "rejected", "fetch", "analysis",
                     \* "returned", "raised"
    fetched,         \* what fetch_ohlcv_data returns
    returned,        \* what run_oracle_analysis returned or raised
    advanced_metrics \* calculate_advanced_metrics: the returned dict

simvars == <<fee_pct, use_confidence, n, i, df, capital, position, entry_price,
             entry_bar, position_size, trades, nupdates, equity_curve, pc,
             result>>
sigvars == <<frame, k, sigpc>>
indvars == <<args, indpc, fi>>
runvars == <<entry, config, runpc, fetched, returned, advanced_metrics>>
vars == <<fee_pct, use_confidence, n, i, df, capital, position, entry_price,
          entry_bar, position_size, trades, nupdates, equity_curve, pc,
          result, frame, k, sigpc, oracle_output, args, indpc, fi, entry,
          config, runpc, fetched, returned, advanced_metrics>>

(***************************************************************************)
(* Bounds of the model.                                                    *)
(***************************************************************************)
\* Series of up to ShortLen rows take any row at every index.
ShortLen == 3
\* The long series takes any row at its first LongFree indices and then
\* repeats the last close with signal HOLD.
LongFree == 1
\* Number of rows of the frames handed to generate_signals_rolling.
SigLen == 2
\* Series of up to PipeLen bars run through the whole pipeline.
PipeLen == 5

(***************************************************************************)
(* Exact rational arithmetic standing for Python float arithmetic.         *)
(***************************************************************************)
Abs(x) == IF x < 0 THEN -x ELSE x

RECURSIVE GCD(_, _)
GCD(a, b) == IF b = 0 THEN a ELSE GCD(b, a % b)

RNorm(num, den) ==
    LET g == GCD(Abs(num), den) IN <<num \div g, den \div g>>

R(x) == <<x, 1>>

Zero == <<0, 1>>

One == <<1, 1>>

NaN == <<0, 0>>

IsNaN(x) == x[2] = 0

RAdd(x, y) ==
    LET g == GCD(x[2], y[2])
    IN  RNorm(x[1] * (y[2] \div g) + y[1] * (x[2] \div g), (x[2] \div g) * y[2])

RNeg(x) == <<-x[1], x[2]>>

RSub(x, y) == RAdd(x, RNeg(y))

RMul(x, y) ==
    LET g1 == GCD(Abs(x[1]), y[2])
        g2 == GCD(Abs(y[1]), x[2])
    IN  RNorm((x[1] \div g1) * (y[1] \div g2), (x[2] \div g2) * (y[2] \div g1))

RInv(x) == IF x[1] > 0 THEN <<x[2], x[1]>> ELSE <<-x[2], -x[1]>>

RDiv(x, y) == RMul(x, RInv(y))

RLe(x, y) ==
    LET g == GCD(x[2], y[2])
    IN  x[1] * (y[2] \div g) <= y[1] * (x[2] \div g)

RLt(x, y) == ~RLe(y, x)

RGe(x, y) == RLe(y, x)

RGt(x, y) == ~RLe(x, y)

RAbs(x) == <<Abs(x[1]), x[2]>>

\* float('inf').
Inf == <<1, 0>>

\* Floating-point subtraction and division: NaN propagates, x / 0 is an
\* infinity and 0 / 0 is NaN.
NegInf == <<-1, 0>>

IsFinite(x) == x[2] # 0

FSub(x, y) == IF IsNaN(x) \/ IsNaN(y) THEN NaN ELSE RSub(x, y)

FDiv(x, y) ==
    IF IsNaN(x) \/ IsNaN(y) THEN NaN
    ELSE IF y = Zero
         THEN IF x = Zero THEN NaN
              ELSE IF RGt(x, Zero) THEN Inf ELSE NegInf
         ELSE RDiv(x, y)

(***************************************************************************)
(* simulate_trades: arguments and inputs.                                  *)
(***************************************************************************)
initial_capital == R(10000)
\* Arguments chosen for the runs (the defaults 0.95 and 0.001 would leave
\* the range of 32-bit numerators after two trades); fee_pct is 1/100 or 0.
position_size_pct == <<1, 2>>
stop_loss_pct == <<2, 100>>
take_profit_pct == <<5, 100>>
MaxHoldBars == 100

\* Close prices a row may carry.  From 100, 98 is exactly the long stop;
\* 300 is a long target and drives a short account below zero.
Prices == {98, 100, 300}
Signals == {"BUY", "SELL", "HOLD"}
Confidences == {"High", "Low"}

Rows == [Signal : Signals, close : {R(p) : p \in Prices}, Confidence : Confidences]

LongLen == LongFree + MaxHoldBars + 1

Lengths == (0 .. ShortLen) \cup {LongLen}

FreeBars(len) == IF len <= ShortLen THEN len ELSE LongFree

\* The rows df may hold at the 0-based index idx, given the rows before it.
RowChoices(idx, before) ==
    IF indpc = "done"
    THEN {[Signal |-> frame[idx + 1].Signal,
           close |-> frame[idx + 1].close,
           Confidence |-> frame[idx + 1].Confidence]}
    ELSE IF idx < FreeBars(n)
         THEN Rows
         ELSE {[Signal |-> "HOLD", close |-> before[idx].close,
                Confidence |-> "Low"]}

\* d.update(u) of a Python dict.
Update(d, u) == u @@ d

Last(s) == s[Len(s)]

SetLast(s, v) == [s EXCEPT ![Len(s)] = v]

(***************************************************************************)
(* simulate_trades: the pieces of one loop iteration.                      *)
(***************************************************************************)
\* Line 456: the bar is skipped by the confidence filter.
FilterSkips_BuyOnly(signal, confidence) ==
    /\ use_confidence
    /\ confidence # "High"
    /\ signal = "BUY"

FilterSkips(signal, confidence) ==
    /\ use_confidence
    /\ confidence # "High"
    /\ signal \in {"BUY", "SELL"}

\* Lines 510-531: exit_reason of an open LONG position, "None" when
\* exit_triggered stays False.
LongExitReason_ReversalFirst(price, signal, idx, eprice, ebar) ==
    IF signal = "SELL" THEN "Signal Reversal"
    ELSE IF RLe(price, RMul(eprice, RSub(One, stop_loss_pct))) THEN "Stop Loss"
    ELSE IF RGe(price, RMul(eprice, RAdd(One, take_profit_pct))) THEN "Take Profit"
    ELSE IF idx - ebar > MaxHoldBars THEN "Max Hold Period"
    ELSE "None"

LongExitReason(price, signal, idx, eprice, ebar) ==
    IF RLe(price, RMul(eprice, RSub(One, stop_loss_pct))) THEN "Stop Loss"
    ELSE IF RGe(price, RMul(eprice, RAdd(One, take_profit_pct))) THEN "Take Profit"
    ELSE IF signal = "SELL" THEN "Signal Reversal"
    ELSE IF idx - ebar > MaxHoldBars THEN "Max Hold Period"
    ELSE "None"

\* Lines 564-585: exit_reason of an open SHORT position.
ShortExitReason(price, signal, idx, eprice, ebar) ==
    IF RGe(price, RMul(eprice, RAdd(One, stop_loss_pct))) THEN "Stop Loss"
    ELSE IF RLe(price, RMul(eprice, RSub(One, take_profit_pct))) THEN "Take Profit"
    ELSE IF signal = "BUY" THEN "Signal Reversal"
    ELSE IF idx - ebar > MaxHoldBars THEN "Max Hold Period"
    ELSE "None"

\* Lines 462, 485: the side a flat account enters on a signal.
EntrySide_Else(signal) == IF signal = "BUY" THEN "LONG" ELSE "SHORT"

EntrySide(signal) ==
    IF signal = "BUY" THEN "LONG"
    ELSE IF signal = "SELL" THEN "SHORT"
    ELSE "NONE"

\* Lines 469, 492: position_size at entry.
EntrySize_Full(cap, price) == RDiv(cap, price)

EntrySize(cap, price) == RDiv(RMul(cap, position_size_pct), price)

\* Lines 470-471, 493-494: the fee on a notional.
Fee(notional) == RMul(notional, fee_pct)

\* Lines 472, 495: capital after entering.
CapitalAfterEntry(cap, pos, size, price) ==
    LET notional == RMul(size, price)
    IN  IF pos = "LONG"
        THEN RSub(cap, RAdd(notional, Fee(notional)))
        ELSE RAdd(cap, RSub(notional, Fee(notional)))

\* A close that charges no exit fee.
CapitalAfterExit_NoFee(cap, pos, size, price) ==
    LET notional == RMul(size, price)
    IN  IF pos = "LONG" THEN RAdd(cap, notional) ELSE RSub(cap, notional)

\* Lines 537, 591, 635, 640: capital after closing.
CapitalAfterExit(cap, pos, size, price) ==
    LET notional == RMul(size, price)
    IN  IF pos = "LONG"
        THEN RAdd(cap, RSub(notional, Fee(notional)))
        ELSE RSub(cap, RAdd(notional, Fee(notional)))

\* Lines 540, 594, 636, 641: pnl before fees.
GrossPnl(pos, size, eprice, price) ==
    IF pos = "LONG"
    THEN RSub(RMul(size, price), RMul(size, eprice))
    ELSE RSub(RMul(size, eprice), RMul(size, price))

\* An entry recorded on the bar before the one that opened it.
EntryTrade_PreviousBar(idx, price, pos, size, confidence) ==
    [entry_bar |-> idx - 1,
     entry_price |-> price,
     position |-> pos,
     position_size |-> size,
     entry_fee |-> Fee(RMul(size, price)),
     confidence |-> confidence]

\* Lines 474-483, 497-506: the dict appended at entry.
EntryTrade(idx, price, pos, size, confidence) ==
    [entry_bar |-> idx,
     entry_price |-> price,
     position |-> pos,
     position_size |-> size,
     entry_fee |-> Fee(RMul(size, price)),
     confidence |-> confidence]

\* Lines 546-558, 600-612: the dict passed to trades[-1].update() when an
\* exit rule fires inside the loop.
ExitFields(t, idx, price, reason, pos, size, eprice, ebar) ==
    LET exit_fee == Fee(RMul(size, price))
        pnl == GrossPnl(pos, size, eprice, price)
        total_fees == RAdd(t.entry_fee, exit_fee)
    IN  [exit_bar |-> idx,
         exit_price |-> price,
         exit_fee |-> exit_fee,
         exit_reason |-> reason,
         holding_period |-> idx - ebar,
         pnl |-> pnl,
         net_pnl |-> RSub(pnl, total_fees),
         total_fees |-> total_fees]

\* Lines 643-655: the dict passed to trades[-1].update() after the loop.
EndOfDataFields_EntryPrice(t, len, last_price, pos, size, eprice, ebar) ==
    LET exit_fee == Fee(RMul(size, last_price))
        pnl == GrossPnl(pos, size, eprice, last_price)
    IN  [exit_bar |-> len - 1,
         exit_price |-> eprice,
         exit_fee |-> exit_fee,
         exit_reason |-> "End of Data",
         holding_period |-> len - 1 - ebar,
         pnl |-> RSub(pnl, RAdd(t.entry_fee, exit_fee)),
         net_pnl |-> RSub(pnl, RAdd(t.entry_fee, exit_fee)),
         total_fees |-> RAdd(t.entry_fee, exit_fee)]

EndOfDataFields(t, len, last_price, pos, size, eprice, ebar) ==
    LET exit_fee == Fee(RMul(size, last_price))
        pnl == GrossPnl(pos, size, eprice, last_price)
    IN  [exit_bar |-> len - 1,
         exit_price |-> last_price,
         exit_fee |-> exit_fee,
         exit_reason |-> "End of Data",
         holding_period |-> len - 1 - ebar,
         pnl |-> RSub(pnl, RAdd(t.entry_fee, exit_fee)),
         net_pnl |-> RSub(pnl, RAdd(t.entry_fee, exit_fee)),
         total_fees |-> RAdd(t.entry_fee, exit_fee)]

\* The curve that tracks the cash balance only.
Equity_CapitalOnly(pos, cap, size, price) == cap

\* Lines 618-627: the value appended to equity_curve at the end of a bar
\* that was not skipped.
Equity(pos, cap, size, price) ==
    IF pos = "NONE" THEN cap
    ELSE IF pos = "LONG" THEN RAdd(cap, RMul(size, price))
    ELSE RSub(cap, RMul(size, price))

\* Lines 560, 614: position after an exit inside the loop.
ClosedPosition_Keep(pos) == pos

ClosedPosition(pos) == "NONE"

\* Line 457: the value appended to equity_curve on a skipped bar.
SkippedEquity(pos, cap, size, price) == cap

\* Line 658: 'exit_price' in t.
HasExit(t) == "exit_price" \in DOMAIN t

RECURSIVE SumNetPnl(_)
SumNetPnl(ts) ==
    IF ts = <<>> THEN Zero ELSE RAdd(ts[1].net_pnl, SumNetPnl(Tail(ts)))

\* Lines 664, 679: (capital / initial_capital - 1) * 100.
TotalReturnPct(cap) ==
    RMul(RSub(RDiv(cap, initial_capital), One), R(100))

\* Line 670.
IsWinning(t) == RGt(t.net_pnl, Zero)

\* Line 671.
IsLosing(t) == RLe(t.net_pnl, Zero)

\* Line 690.
ProfitFactor(winning_trades, losing_trades) ==
    IF losing_trades # <<>> /\ SumNetPnl(losing_trades) # Zero
    THEN RAbs(RDiv(SumNetPnl(winning_trades), SumNetPnl(losing_trades)))
    ELSE Inf

\* The arguments of the run.
vwap_period == 2
fft_period == 4
sigma_threshold == R(2)
reversal_threshold_percent == <<1, 10>>

DefaultArgs ==
    [vwap_period |-> vwap_period,
     fft_period |-> fft_period,
     sigma_threshold |-> sigma_threshold,
     reversal_threshold_percent |-> reversal_threshold_percent,
     enable_backtest |-> TRUE,
     enable_trend_analysis |-> FALSE]

\* The value of oracle_output before generate_signal has returned.
NoOutput == [Final_Signal |-> "unset"]

\* The value of advanced_metrics before calculate_advanced_metrics has
\* returned.
NoMetrics == [unset |-> TRUE]

\* The value of fetched and of returned while run_oracle_analysis has
\* fetched and returned nothing.
Nothing == [kind |-> "unset"]

\* config.py lines 75-91, with the scaled-down windows of the runs.
DefaultConfig ==
    [LIMIT |-> PipeLen,
     VWAP_PERIOD |-> vwap_period,
     FFT_PERIOD |-> fft_period,
     SIGMA_THRESHOLD |-> sigma_threshold,
     REVERSAL_THRESHOLD_PERCENT |-> reversal_threshold_percent]

\* simulate_trades, generate_signals_rolling or calculate_fft_phase called
\* on their own, outside run_oracle_analysis.
NotCalled ==
    /\ entry = "none"
    /\ config = DefaultConfig
    /\ runpc = "idle"
    /\ fetched = Nothing
    /\ returned = Nothing
    /\ advanced_metrics = NoMetrics

(***************************************************************************)
(* simulate_trades: the state machine.                                     *)
(***************************************************************************)
\* Lines 439-448.
Init ==
    /\ use_confidence \in BOOLEAN
    /\ n \in Lengths
    /\ i = 0
    /\ df = <<>>
    /\ capital = initial_capital
    /\ position = "NONE"
    /\ entry_price = Zero
    /\ entry_bar = 0
    /\ position_size = Zero
    /\ trades = <<>>
    /\ nupdates = <<>>
    /\ equity_curve = <<initial_capital>>
    /\ pc = "loop"
    /\ result = [total_trades |-> -1]
    /\ frame = <<>>
    /\ k = 0
    /\ sigpc = "idle"
    /\ fee_pct = <<1, 100>>
    /\ oracle_output = NoOutput
    /\ args = DefaultArgs
    /\ indpc = "idle"
    /\ fi = 0
    /\ NotCalled

\* Lines 461-506: the entry branch (position is None).
Entry(signal, price, confidence) ==
    IF EntrySide(signal) # "NONE" /\ RGt(capital, Zero)
    THEN LET pos == EntrySide(signal)
             size == EntrySize(capital, price)
         IN  /\ position' = pos
             /\ entry_price' = price
             /\ entry_bar' = i
             /\ position_size' = size
             /\ capital' = CapitalAfterEntry(capital, pos, size, price)
             /\ trades' = Append(trades, EntryTrade(i, price, pos, size, confidence))
             /\ nupdates' = Append(nupdates, 0)
    ELSE UNCHANGED <<position, entry_price, entry_bar, position_size, capital,
                     trades, nupdates>>

\* Lines 509-615: the exit branches (position is LONG or SHORT).
Exit(signal, price) ==
    LET reason == IF position = "LONG"
                  THEN LongExitReason(price, signal, i, entry_price, entry_bar)
                  ELSE ShortExitReason(price, signal, i, entry_price, entry_bar)
    IN  IF reason # "None"
        THEN /\ capital' = CapitalAfterExit(capital, position, position_size, price)
             /\ trades' = SetLast(trades,
                    Update(Last(trades),
                           ExitFields(Last(trades), i, price, reason, position,
                                      position_size, entry_price, entry_bar)))
             /\ nupdates' = SetLast(nupdates, Last(nupdates) + 1)
             /\ position' = ClosedPosition(position)
             /\ position_size' = Zero
             /\ UNCHANGED <<entry_price, entry_bar>>
        ELSE UNCHANGED <<position, entry_price, entry_bar, position_size,
                         capital, trades, nupdates>>

\* Lines 450-627: one iteration of the loop over df.iterrows().
ProcessBar ==
    /\ pc = "loop"
    /\ i < n
    /\ \E b \in RowChoices(i, df) :
          /\ df' = Append(df, b)
          /\ IF FilterSkips(b.Signal, b.Confidence)
             THEN /\ equity_curve' = Append(equity_curve,
                        SkippedEquity(position, capital, position_size, b.close))
                  /\ UNCHANGED <<position, entry_price, entry_bar,
                                 position_size, capital, trades, nupdates>>
             ELSE /\ IF position = "NONE"
                     THEN Entry(b.Signal, b.close, b.Confidence)
                     ELSE Exit(b.Signal, b.close)
                  /\ equity_curve' = Append(equity_curve,
                        Equity(position', capital', position_size', b.close))
    /\ i' = i + 1
    /\ UNCHANGED <<use_confidence, n, pc, result, frame, k, sigpc,
                   oracle_output, args, indpc, fi, fee_pct, runvars>>

\* Lines 629-655: close the position that is still open after the loop.
CloseRemaining ==
    /\ pc = "loop"
    /\ i = n
    /\ IF position # "NONE"
       THEN /\ capital' = CapitalAfterExit(capital, position, position_size, Last(df).close)
            /\ trades' = SetLast(trades,
                   Update(Last(trades),
                          EndOfDataFields(Last(trades), n, Last(df).close, position,
                                          position_size, entry_price, entry_bar)))
            /\ nupdates' = SetLast(nupdates, Last(nupdates) + 1)
       ELSE UNCHANGED <<capital, trades, nupdates>>
    /\ pc' = "stats"
    /\ UNCHANGED <<use_confidence, n, i, df, position, entry_price, entry_bar,
                   position_size, equity_curve, result, frame, k, sigpc,
                   oracle_output, args, indpc, fi, fee_pct, runvars>>

\* Lines 657-700: build the returned dict.
Return ==
    /\ pc = "stats"
    /\ LET completed_trades == SelectSeq(trades, HasExit)
           winning_trades == SelectSeq(completed_trades, IsWinning)
           losing_trades == SelectSeq(completed_trades, IsLosing)
       IN  result' =
             IF Len(completed_trades) = 0
             THEN [total_trades |-> 0,
                   final_capital |-> capital,
                   total_return_pct |-> TotalReturnPct(capital),
                   trades |-> <<>>,
                   equity_curve |-> equity_curve]
             ELSE [initial_capital |-> initial_capital,
                   final_capital |-> capital,
                   total_return |-> SumNetPnl(completed_trades),
                   total_return_pct |-> TotalReturnPct(capital),
                   total_trades |-> Len(completed_trades),
                   winning_trades |-> Len(winning_trades),
                   losing_trades |-> Len(losing_trades),
                   profit_factor |->
                       ProfitFactor(winning_trades, losing_trades),
                   trades |-> completed_trades,
                   equity_curve |-> equity_curve]
    /\ pc' = "done"
    /\ UNCHANGED <<use_confidence, n, i, df, capital, position, entry_price,
                   entry_bar, position_size, trades, nupdates, equity_curve,
                   frame, k, sigpc,
                   oracle_output, args, indpc, fi, fee_pct, runvars>>

Next == ProcessBar \/ CloseRemaining \/ Return

Spec == Init /\ [][Next]_vars

\* simulate_trades called with fee_pct = 0 or 1/100 and use_confidence =
\* False on a series of at most ShortLen rows.
InitFees ==
    /\ fee_pct \in {Zero, <<1, 100>>}
    /\ use_confidence = FALSE
    /\ n \in 0 .. ShortLen
    /\ i = 0
    /\ df = <<>>
    /\ capital = initial_capital
    /\ position = "NONE"
    /\ entry_price = Zero
    /\ entry_bar = 0
    /\ position_size = Zero
    /\ trades = <<>>
    /\ nupdates = <<>>
    /\ equity_curve = <<initial_capital>>
    /\ pc = "loop"
    /\ result = [total_trades |-> -1]
    /\ frame = <<>>
    /\ k = 0
    /\ sigpc = "idle"
    /\ oracle_output = NoOutput
    /\ args = DefaultArgs
    /\ indpc = "idle"
    /\ fi = 0
    /\ NotCalled

SpecFees == InitFees /\ [][Next]_vars

TypeOK ==
    /\ position \in {"NONE", "LONG", "SHORT"}
    /\ i \in 0 .. n
    /\ Len(equity_curve) = i + 1
    /\ Len(nupdates) = Len(trades)
    /\ Len(df) = i

(***************************************************************************)
(* generate_signals_rolling: arguments and inputs.                         *)
(***************************************************************************)

\* Values of the columns E, T_reversal, Dominant_Period and volume of df.
EValues == {NaN, R(-3), Zero, R(2), R(3)}
TValues == {NaN, R(1), R(2)}
PeriodValues == {NaN, R(20)}
Volumes == {1, 3}

InputRows == [E : EValues, T_reversal : TValues,
              Dominant_Period : PeriodValues, volume : Volumes]

InputFrames == UNION {[1 .. len -> InputRows] : len \in 0 .. SigLen}

RECURSIVE SumVolume(_, _, _)
SumVolume(fr, from, to) ==
    IF from > to THEN 0
    ELSE IF from = to THEN fr[from].volume
    ELSE SumVolume(fr, from, (from + to) \div 2)
         + SumVolume(fr, (from + to) \div 2 + 1, to)

\* Lines 179-180: df['volume'] / df['volume'].rolling(window).mean() at the
\* 1-based row j; the rolling mean is NaN until the window is full.
VolumeRatio(fr, j, window) ==
    IF j < window
    THEN NaN
    ELSE FDiv(R(fr[j].volume), RNorm(SumVolume(fr, j - window + 1, j), window))

\* Line 188.
Undefined(r) == IsNaN(r.E) \/ IsNaN(r.T_reversal) \/ IsNaN(r.Dominant_Period)

\* Line 192.
DeviationSignal_NoAbs(E) == RGt(E, args.sigma_threshold)

DeviationSignal(E) == RGt(RAbs(E), args.sigma_threshold)

\* Line 196.
ReversalThresholdBars(period) ==
    RMul(period, args.reversal_threshold_percent)

\* Line 197.
TimingSignal(T, period) == RLt(T, ReversalThresholdBars(period))

\* Lines 202-208 with the two sides exchanged.
Classify_Swapped(E, deviation_signal, timing_signal, old) ==
    IF deviation_signal /\ timing_signal
    THEN IF RLt(E, Zero) THEN <<"SELL", "Short">>
         ELSE IF RGt(E, Zero) THEN <<"BUY", "Long">>
         ELSE old
    ELSE old

\* Lines 202-208: the pair <<Signal, Direction>> written for a row, given
\* the values the columns hold.
Classify(E, deviation_signal, timing_signal, old) ==
    IF deviation_signal /\ timing_signal
    THEN IF RLt(E, Zero) THEN <<"BUY", "Long">>
         ELSE IF RGt(E, Zero) THEN <<"SELL", "Short">>
         ELSE old
    ELSE old

\* Lines 211-216 with >= in place of >.
ConfidenceOf_Ge(vol_ratio, old) ==
    IF ~IsNaN(vol_ratio)
    THEN IF RGe(vol_ratio, One) THEN "High" ELSE "Low"
    ELSE old

\* Lines 211-216.
ConfidenceOf(vol_ratio, old) ==
    IF ~IsNaN(vol_ratio)
    THEN IF RGt(vol_ratio, One) THEN "High" ELSE "Low"
    ELSE old

\* Lines 184-216 with the confidence block moved in front of the skip.
SignalRow_ConfidenceFirst(r) ==
    IF Undefined(r)
    THEN [r EXCEPT !.Confidence = ConfidenceOf(r.Volume_Ratio, r.Confidence)]
    ELSE LET deviation_signal == DeviationSignal(r.E)
             timing_signal == TimingSignal(r.T_reversal, r.Dominant_Period)
             sd == Classify(r.E, deviation_signal, timing_signal,
                            <<r.Signal, r.Direction>>)
         IN  [r EXCEPT !.Deviation_Signal = deviation_signal,
                       !.Timing_Signal = timing_signal,
                       !.Reversal_Threshold_Bars =
                           ReversalThresholdBars(r.Dominant_Period),
                       !.Signal = sd[1],
                       !.Direction = sd[2],
                       !.Confidence = ConfidenceOf(r.Volume_Ratio, r.Confidence)]

\* Lines 184-216: the body of the loop for one row.
SignalRow(r) ==
    IF Undefined(r)
    THEN r
    ELSE LET deviation_signal == DeviationSignal(r.E)
             timing_signal == TimingSignal(r.T_reversal, r.Dominant_Period)
             sd == Classify(r.E, deviation_signal, timing_signal,
                            <<r.Signal, r.Direction>>)
         IN  [r EXCEPT !.Deviation_Signal = deviation_signal,
                       !.Timing_Signal = timing_signal,
                       !.Reversal_Threshold_Bars =
                           ReversalThresholdBars(r.Dominant_Period),
                       !.Signal = sd[1],
                       !.Direction = sd[2],
                       !.Confidence = ConfidenceOf(r.Volume_Ratio, r.Confidence)]

(***************************************************************************)
(* generate_signals_rolling: the state machine.                            *)
(***************************************************************************)
SigInit ==
    /\ frame \in InputFrames
    /\ k = 0
    /\ sigpc = "init"
    /\ use_confidence = FALSE
    /\ n = 0
    /\ i = 0
    /\ df = <<>>
    /\ capital = initial_capital
    /\ position = "NONE"
    /\ entry_price = Zero
    /\ entry_bar = 0
    /\ position_size = Zero
    /\ trades = <<>>
    /\ nupdates = <<>>
    /\ equity_curve = <<initial_capital>>
    /\ pc = "idle"
    /\ result = [total_trades |-> -1]
    /\ fee_pct = <<1, 100>>
    /\ oracle_output = NoOutput
    /\ args = DefaultArgs
    /\ indpc = "idle"
    /\ fi = 0
    /\ NotCalled

\* Lines 169-180: initialise the signal columns and compute Volume_Ratio.
InitColumns ==
    /\ sigpc = "init"
    /\ frame' = [j \in 1 .. Len(frame) |->
                   Update(frame[j],
                          [Deviation_Signal |-> FALSE,
                           Timing_Signal |-> FALSE,
                           Reversal_Threshold_Bars |-> NaN,
                           Signal |-> "HOLD",
                           Direction |-> "N/A",
                           Volume_Ratio |->
                               VolumeRatio(frame, j, args.vwap_period),
                           Confidence |-> "N/A"])]
    /\ sigpc' = "loop"
    /\ UNCHANGED <<k, use_confidence, n, i, df, capital, position,
                   entry_price, entry_bar, position_size, trades, nupdates,
                   equity_curve, pc, result,
                   oracle_output, args, indpc, fi, fee_pct, runvars>>

\* Lines 183-216: one iteration of the loop over the rows.
SignalBar ==
    /\ sigpc = "loop"
    /\ k < Len(frame)
    /\ frame' = [frame EXCEPT ![k + 1] = SignalRow(frame[k + 1])]
    /\ k' = k + 1
    /\ UNCHANGED <<sigpc, use_confidence, n, i, df, capital, position,
                   entry_price, entry_bar, position_size, trades, nupdates,
                   equity_curve, pc, result,
                   oracle_output, args, indpc, fi, fee_pct, runvars>>

\* Lines 218-221.
SignalReturn ==
    /\ sigpc = "loop"
    /\ k = Len(frame)
    /\ sigpc' = "done"
    /\ UNCHANGED <<frame, k, use_confidence, n, i, df, capital, position,
                   entry_price, entry_bar, position_size, trades, nupdates,
                   equity_curve, pc, result,
                   oracle_output, args, indpc, fi, fee_pct, runvars>>

\* generate_signal, lines 237-271, with the NaN test on 'E' alone.
OracleOutput_EOnly(last_row) ==
    IF IsNaN(last_row.E)
    THEN [Final_Signal |-> "INSUFFICIENT_DATA",
          Direction |-> "N/A",
          Confidence |-> "N/A"]
    ELSE [Deviation_E |-> last_row.E,
          Dominant_Period |-> last_row.Dominant_Period,
          T_reversal |-> last_row.T_reversal,
          Reversal_Threshold |-> last_row.Reversal_Threshold_Bars,
          Deviation_Signal |-> last_row.Deviation_Signal,
          Timing_Signal |-> last_row.Timing_Signal,
          Final_Signal |-> last_row.Signal,
          Direction |-> last_row.Direction,
          Volume_Ratio |-> last_row.Volume_Ratio,
          Confidence |-> last_row.Confidence]

\* generate_signal, lines 237-271: the dict returned for the last row.
OracleOutput(last_row) ==
    IF \/ IsNaN(last_row.E)
       \/ IsNaN(last_row.T_reversal)
       \/ IsNaN(last_row.Dominant_Period)
    THEN [Final_Signal |-> "INSUFFICIENT_DATA",
          Direction |-> "N/A",
          Confidence |-> "N/A"]
    ELSE [Deviation_E |-> last_row.E,
          Dominant_Period |-> last_row.Dominant_Period,
          T_reversal |-> last_row.T_reversal,
          Reversal_Threshold |-> last_row.Reversal_Threshold_Bars,
          Deviation_Signal |-> last_row.Deviation_Signal,
          Timing_Signal |-> last_row.Timing_Signal,
          Final_Signal |-> last_row.Signal,
          Direction |-> last_row.Direction,
          Volume_Ratio |-> last_row.Volume_Ratio,
          Confidence |-> last_row.Confidence]

\* generate_signal, lines 224-273, called by run_oracle_analysis (line 342)
\* on the frame generate_signals_rolling returned, after the trend analysis
\* of lines 331-339 when it is enabled; run_oracle_analysis has returned at
\* line 321 when the frame is empty.
GenerateSignal ==
    /\ sigpc = (IF args.enable_trend_analysis THEN "enhanced" ELSE "done")
    /\ Len(frame) > 0
    /\ oracle_output' = OracleOutput(Last(frame))
    /\ sigpc' = "reported"
    /\ UNCHANGED <<frame, k, use_confidence, n, i, df, capital, position,
                   entry_price, entry_bar, position_size, trades, nupdates,
                   equity_curve, pc, result, args, indpc, fi, fee_pct, runvars>>

SigNext == InitColumns \/ SignalBar \/ SignalReturn \/ GenerateSignal

SpecSignals == SigInit /\ [][SigNext]_vars

(***************************************************************************)
(* calculate_vwap_and_deviation: the columns of one row.                   *)
(***************************************************************************)
\* The square root of a float is modelled to two decimals.
SqrtScale == 100

RECURSIVE ISqrtIn(_, _, _)
ISqrtIn(x, lo, hi) ==
    IF lo >= hi
    THEN lo
    ELSE LET mid == (lo + hi + 1) \div 2
         IN  IF mid * mid <= x
             THEN ISqrtIn(x, mid, hi)
             ELSE ISqrtIn(x, lo, mid - 1)

\* The largest integer whose square is at most x.
ISqrt(x) == ISqrtIn(x, 0, 46340)

\* The pair <<(r * s) \div b, (r * s) % b>> for 0 <= r < b, built by doubling
\* so that no intermediate value exceeds b.
RECURSIVE MulDivMod(_, _, _)
MulDivMod(r, s, b) ==
    IF s = 0
    THEN <<0, 0>>
    ELSE LET half == MulDivMod(r, s \div 2, b)
             twice == IF half[2] >= b - half[2]
                      THEN <<2 * half[1] + 1, half[2] - (b - half[2])>>
                      ELSE <<2 * half[1], 2 * half[2]>>
         IN  IF s % 2 = 0
             THEN twice
             ELSE IF twice[2] >= b - r
                  THEN <<twice[1] + 1, twice[2] - (b - r)>>
                  ELSE <<twice[1], twice[2] + r>>

\* The largest integer that is at most x * s, for x >= 0.
ScaledFloor(x, s) ==
    (x[1] \div x[2]) * s + MulDivMod(x[1] % x[2], s, x[2])[1]

\* np.sqrt of a non-negative number: a multiple of 1 / SqrtScale, positive
\* when x is.
RSqrt(x) ==
    LET m == ISqrt(ScaledFloor(x, SqrtScale * SqrtScale))
    IN  RNorm(IF m = 0 /\ x[1] > 0 THEN 1 ELSE m, SqrtScale)

\* Line 58.
TypicalPrice(r) == RDiv(RAdd(RAdd(r.high, r.low), r.close), R(3))

\* Line 59 summed over the rows from .. to.
RECURSIVE SumTPVol(_, _, _)
SumTPVol(fr, from, to) ==
    IF from > to THEN Zero
    ELSE IF from = to
    THEN RMul(TypicalPrice(fr[from]), R(fr[from].volume))
    ELSE RAdd(SumTPVol(fr, from, (from + to) \div 2),
              SumTPVol(fr, (from + to) \div 2 + 1, to))

\* Line 61: rolling(window=period).sum() at the 1-based row j, NaN until the
\* window is full.
CumTPVol(fr, j, period) ==
    IF j < period THEN NaN ELSE SumTPVol(fr, j - period + 1, j)

\* Line 62.
CumVolume(fr, j, period) ==
    IF j < period THEN NaN ELSE R(SumVolume(fr, j - period + 1, j))

\* Lines 65-69 without the fallback to close.
ZPrime_NoFallback(cum_tp_vol, cum_volume, close) ==
    FDiv(cum_tp_vol, cum_volume)

\* Lines 65-69: a comparison with NaN is False, so the fallback is also
\* taken while the window is filling.
ZPrime(cum_tp_vol, cum_volume, close) ==
    IF ~IsNaN(cum_volume) /\ RGt(cum_volume, Zero)
    THEN RDiv(cum_tp_vol, cum_volume)
    ELSE close

RECURSIVE SumSeq(_, _, _)
SumSeq(xs, from, to) ==
    IF from > to THEN Zero
    ELSE IF from = to THEN xs[from]
    ELSE RAdd(SumSeq(xs, from, (from + to) \div 2),
              SumSeq(xs, (from + to) \div 2 + 1, to))

RECURSIVE SumSquares(_, _, _, _)
SumSquares(xs, mean, from, to) ==
    IF from > to THEN Zero
    ELSE IF from = to
    THEN RMul(RSub(xs[from], mean), RSub(xs[from], mean))
    ELSE RAdd(SumSquares(xs, mean, from, (from + to) \div 2),
              SumSquares(xs, mean, (from + to) \div 2 + 1, to))

\* Line 72: rolling(window=period).std() at the 1-based row j: the sample
\* standard deviation (ddof = 1) of the window, NaN until the window is full,
\* when the window holds a NaN and when the window has one row.
RollingStd(xs, j, period) ==
    IF j < period \/ period < 2
    THEN NaN
    ELSE IF \E m \in j - period + 1 .. j : ~IsFinite(xs[m])
         THEN NaN
         ELSE LET mean == RDiv(SumSeq(xs, j - period + 1, j), R(period))
              IN  RSqrt(RDiv(SumSquares(xs, mean, j - period + 1, j),
                             R(period - 1)))

\* Lines 76-78: Sigma > epsilon with epsilon = 1e-10. Every Sigma here is a
\* multiple of 1 / SqrtScale, so it exceeds 1e-10 exactly when it is
\* positive.
ExceedsEpsilon(sigma) == ~IsNaN(sigma) /\ RGt(sigma, Zero)

\* Lines 77-81 without the guard.
DeviationE_NoGuard(deviation, sigma) == FDiv(deviation, sigma)

\* Lines 77-81.
DeviationE(deviation, sigma) ==
    IF ExceedsEpsilon(sigma) THEN FDiv(deviation, sigma) ELSE Zero

\* Lines 65-69: the rows from .. to of the column Z_prime.
RECURSIVE ZPrimeColumn(_, _, _, _)
ZPrimeColumn(fr, period, from, to) ==
    IF from > to THEN <<>>
    ELSE IF from = to
         THEN <<ZPrime(CumTPVol(fr, from, period),
                       CumVolume(fr, from, period), fr[from].close)>>
         ELSE ZPrimeColumn(fr, period, from, (from + to) \div 2)
              \o ZPrimeColumn(fr, period, (from + to) \div 2 + 1, to)

\* Line 71: the rows from .. to of the column Deviation.
RECURSIVE DeviationColumn(_, _, _, _)
DeviationColumn(fr, z_prime, from, to) ==
    IF from > to THEN <<>>
    ELSE IF from = to
         THEN <<FSub(fr[from].close, z_prime[from])>>
         ELSE DeviationColumn(fr, z_prime, from, (from + to) \div 2)
              \o DeviationColumn(fr, z_prime, (from + to) \div 2 + 1, to)

\* Line 72: the rows from .. to of the column Sigma.
RECURSIVE SigmaColumn(_, _, _, _)
SigmaColumn(deviation, period, from, to) ==
    IF from > to THEN <<>>
    ELSE IF from = to
         THEN <<RollingStd(deviation, from, period)>>
         ELSE SigmaColumn(deviation, period, from, (from + to) \div 2)
              \o SigmaColumn(deviation, period, (from + to) \div 2 + 1, to)

(***************************************************************************)
(* calculate_fft_phase: the columns of one row.                            *)
(***************************************************************************)
\* 1000 * cos(2 * pi * j / 64) for j = 0 .. 63, rounded.
CosTable == <<
    1000, 995, 981, 957, 924, 882, 831, 773,
    707, 634, 556, 471, 383, 290, 195, 98,
    0, -98, -195, -290, -383, -471, -556, -634,
    -707, -773, -831, -882, -924, -957, -981, -995,
    -1000, -995, -981, -957, -924, -882, -831, -773,
    -707, -634, -556, -471, -383, -290, -195, -98,
    0, 98, 195, 290, 383, 471, 556, 634,
    707, 773, 831, 882, 924, 957, 981, 995
>>

Cos64(j) == CosTable[(j % Len(CosTable)) + 1]

Sin64(j) == Cos64(j + 3 * (Len(CosTable) \div 4))

\* Division that rounds towards zero.
Quot(a, b) == IF a >= 0 THEN a \div b ELSE -((-a) \div b)

\* A price in thousandths.
Milli(x) == (x[1] * 1000) \div x[2]

RECURSIVE SumMilli(_, _, _)
SumMilli(fr, from, to) ==
    IF from > to
    THEN 0
    ELSE Milli(fr[from].close) + SumMilli(fr, from + 1, to)

RECURSIVE DetrendedFrom(_, _, _, _, _)
DetrendedFrom(fr, ii, period, total, m) ==
    IF m > period
    THEN <<>>
    ELSE <<Quot(period * Milli(fr[ii - period + m].close) - total, period)>>
         \o DetrendedFrom(fr, ii, period, total, m + 1)

\* Lines 119-123: series - np.mean(series) for price_series[i-period:i], in
\* thousandths; element m (1-based) of the window is row i - period + m.
Detrended(fr, ii, period) ==
    DetrendedFrom(fr, ii, period, SumMilli(fr, ii - period + 1, ii), 1)

\* Line 125: the real and the imaginary part of yf[kk], times 10^6. The
\* window length divides the length of CosTable.
RECURSIVE SumRe(_, _, _)
SumRe(d, kk, m) ==
    IF m > Len(d)
    THEN 0
    ELSE d[m] * Cos64(kk * (m - 1) * (Len(CosTable) \div Len(d)))
         + SumRe(d, kk, m + 1)

RECURSIVE SumIm(_, _, _)
SumIm(d, kk, m) ==
    IF m > Len(d)
    THEN 0
    ELSE SumIm(d, kk, m + 1)
         - d[m] * Sin64(kk * (m - 1) * (Len(CosTable) \div Len(d)))

YfReal(d, kk) == SumRe(d, kk, 1)

YfImag(d, kk) == SumIm(d, kk, 1)

\* |yf[kk]| in hundredths.
AbsYf(d, kk) ==
    LET re == Quot(YfReal(d, kk), 10000)
        im == Quot(YfImag(d, kk), 10000)
    IN  ISqrt(re * re + im * im)

RECURSIVE MagnitudesFrom(_, _)
MagnitudesFrom(d, kk) ==
    IF kk > (Len(d) \div 2) - 1
    THEN <<>>
    ELSE <<RNorm(2 * AbsYf(d, kk), 100 * Len(d))>>
         \o MagnitudesFrom(d, kk + 1)

\* Line 128: magnitudes = 2.0/N * np.abs(yf[0:N//2]); the element with the
\* 0-based index kk is magnitudes[kk + 1] here.
Magnitudes(d) == MagnitudesFrom(d, 0)

\* np.argmax(magnitudes[1:]): the 0-based position of the first maximum of
\* the slice.
ArgMaxTail(magnitudes) ==
    CHOOSE a \in 0 .. Len(magnitudes) - 2 :
        \A b \in 0 .. Len(magnitudes) - 2 :
            /\ RGe(magnitudes[a + 2], magnitudes[b + 2])
            /\ magnitudes[a + 2] = magnitudes[b + 2] => a <= b

\* Line 133 without the + 1.
DominantIdx_NoOffset(magnitudes) == ArgMaxTail(magnitudes)

\* Line 133.
DominantIdx(magnitudes) == ArgMaxTail(magnitudes) + 1

\* Line 126: xf[kk] = kk / N for kk < N // 2.
Xf(kk, period) == RNorm(kk, period)

\* Line 142: np.arctan2(im, re) as a fraction of a turn in (-1/2, 1/2]:
\* exact on the eight directions that are multiples of pi/4, and the middle
\* of the octant elsewhere.
Atan2Turns(im, re) ==
    IF im = 0 THEN (IF re >= 0 THEN Zero ELSE <<1, 2>>)
    ELSE IF re = 0 THEN (IF im > 0 THEN <<1, 4>> ELSE <<-1, 4>>)
    ELSE LET octant == IF Abs(im) = Abs(re) THEN <<2, 16>>
                       ELSE IF Abs(im) < Abs(re) THEN <<1, 16>>
                       ELSE <<3, 16>>
             first == RNorm(octant[1], octant[2])
             upper == IF re > 0 THEN first ELSE RSub(<<1, 2>>, first)
         IN  IF im > 0 THEN upper ELSE RNeg(upper)

\* Line 143: (phase_rad + 2 * pi) % (2 * pi), as a fraction of a turn.
PhaseNorm(phase) == IF RLt(phase, Zero) THEN RAdd(phase, One) ELSE phase

\* Line 144.
TReversal(phase_norm, dominant_period) ==
    RMul(RSub(One, phase_norm), dominant_period)

\* Lines 130-150: the row i - 1 after the loop iteration i, given the
\* detrended window d and its magnitudes; Phase_Rad is held as a fraction
\* of a turn.
FftRow(row, d, magnitudes) ==
    IF Len(magnitudes) - 1 <= 0
    THEN row
    ELSE LET dominant_idx == DominantIdx(magnitudes)
         IN  IF dominant_idx = 0 \/ Xf(dominant_idx, Len(d)) = Zero
             THEN row
             ELSE LET dominant_freq == Xf(dominant_idx, Len(d))
                      dominant_period == RInv(dominant_freq)
                      phase_norm ==
                          PhaseNorm(Atan2Turns(YfImag(d, dominant_idx),
                                               YfReal(d, dominant_idx)))
                  IN  Update(row,
                          [Dominant_Period |-> dominant_period,
                           Phase_Rad |-> phase_norm,
                           T_reversal |->
                               TReversal(phase_norm, dominant_period),
                           Dominant_Freq |-> dominant_freq,
                           Spectral_Power |-> magnitudes[dominant_idx + 1]])

(***************************************************************************)
(* run_oracle_analysis: the inputs of the pipeline.                        *)
(***************************************************************************)
\* A bar with high = low = close.
Bar(close, volume) ==
    [high |-> close, low |-> close, close |-> close, volume |-> volume]

Closes == {90, 100}
BarVolumes == {0, 1}

SmallBars == {Bar(R(c), v) : c \in Closes, v \in BarVolumes}

SmallFrames == UNION {[1 .. len -> SmallBars] : len \in 1 .. PipeLen}

\* 200 bars with close 100 and volume 100, analysed with the windows 20
\* and 64.
FlatScenario ==
    [bars |-> 200, close |-> 100, volume |-> 100,
     vwap_period |-> 20, fft_period |-> 64]

FlatSeries ==
    [j \in 1 .. FlatScenario.bars |->
        Bar(R(FlatScenario.close), FlatScenario.volume)]

\* 125 bars with close 100 and volume 100, except for a close 10 % lower at
\* the 0-based bar 100, analysed with the windows 20 and 4.
DropScenario ==
    [bars |-> 125, close |-> 100, volume |-> 100, drop_bar |-> 100,
     drop_percent |-> 10, spike_volume |-> 200, vwap_period |-> 20,
     fft_period |-> 4]

DropSeries ==
    [j \in 1 .. DropScenario.bars |->
        IF j = DropScenario.drop_bar + 1
        THEN Bar(RNorm(DropScenario.close * (100 - DropScenario.drop_percent),
                       100),
                 DropScenario.volume)
        ELSE Bar(R(DropScenario.close), DropScenario.volume)]

ScenarioArgs(scenario, fraction) ==
    [vwap_period |-> scenario.vwap_period,
     fft_period |-> scenario.fft_period,
     sigma_threshold |-> sigma_threshold,
     reversal_threshold_percent |-> fraction,
     enable_backtest |-> TRUE,
     enable_trend_analysis |-> FALSE]

\* The values of reversal_threshold_percent of the drop scenario.
Fractions == {reversal_threshold_percent, <<1, 2>>}

\* The drop series with the volume of DropScenario.spike_volume at the bar
\* of the drop.
SpikeSeries ==
    [j \in 1 .. DropScenario.bars |->
        IF j = DropScenario.drop_bar + 1
        THEN [DropSeries[j] EXCEPT !.volume = DropScenario.spike_volume]
        ELSE DropSeries[j]]

\* The callers of run_oracle_analysis: "none" is a direct call with the
\* arguments of the run, "analyze_symbol" the call of api_wrapper.py.
PipeRuns ==
    {[entry |-> e, frame |-> f, args |-> DefaultArgs] :
        e \in {"none", "analyze_symbol"}, f \in SmallFrames}
    \cup {[entry |-> "none", frame |-> FlatSeries,
           args |-> ScenarioArgs(FlatScenario, reversal_threshold_percent)]}
    \cup {[entry |-> "none", frame |-> DropSeries,
           args |-> ScenarioArgs(DropScenario, f)] : f \in Fractions}
    \cup {[entry |-> e, frame |-> SpikeSeries,
           args |-> ScenarioArgs(DropScenario, f)] :
            e \in {"none", "analyze_symbol"}, f \in Fractions}

\* 200 bars of 100 + 5 * sin(2 * pi * t / 50) to three decimals, volume
\* 1000, analysed with the FFT window 64.
SineScenario ==
    [bars |-> 200, period |-> 50, amplitude |-> 5, mean |-> 100,
     volume |-> 1000, vwap_period |-> 20, fft_period |-> 64,
     sigma_threshold |-> <<3, 2>>]

\* 1000 * 5 * sin(2 * pi * t / 50) for t = 0 .. 49, rounded.
SineTable == <<
    0, 627, 1243, 1841, 2409, 2939, 3423, 3853,
    4222, 4524, 4755, 4911, 4990, 4990, 4911, 4755,
    4524, 4222, 3853, 3423, 2939, 2409, 1841, 1243,
    627, 0, -627, -1243, -1841, -2409, -2939, -3423,
    -3853, -4222, -4524, -4755, -4911, -4990, -4990, -4911,
    -4755, -4524, -4222, -3853, -3423, -2939, -2409, -1841,
    -1243, -627
>>

SineSeries ==
    [j \in 1 .. SineScenario.bars |->
        Bar(RNorm(1000 * SineScenario.mean
                    + SineTable[((j - 1) % SineScenario.period) + 1], 1000),
            SineScenario.volume)]

(***************************************************************************)
(* run_oracle_analysis: the state machine of the pipeline.                 *)
(***************************************************************************)
\* The state before line 326 of one run, or before the stage `at` starts.
PipeStart(run, at) ==
    /\ frame = run.frame
    /\ args = run.args
    /\ indpc = at
    /\ fi = 0
    /\ k = 0
    /\ sigpc = "idle"
    /\ oracle_output = NoOutput
    /\ fee_pct = <<1, 100>>
    /\ use_confidence = TRUE
    /\ n = 0
    /\ i = 0
    /\ df = <<>>
    /\ capital = initial_capital
    /\ position = "NONE"
    /\ entry_price = Zero
    /\ entry_bar = 0
    /\ position_size = Zero
    /\ trades = <<>>
    /\ nupdates = <<>>
    /\ equity_curve = <<initial_capital>>
    /\ pc = "idle"
    /\ result = [total_trades |-> -1]

\* None.
None == [kind |-> "None"]

\* A DataFrame with the rows fr.
DataFrame(fr) == [kind |-> "frame", frame |-> fr]

\* What fetch_ohlcv_data may return: None, an empty frame or a series.
FetchResults(run) == {None, DataFrame(<<>>), DataFrame(run.frame)}

\* The module config that holds the windows and thresholds of a.
ConfigOf(a) ==
    [LIMIT |-> DefaultConfig.LIMIT,
     VWAP_PERIOD |-> a.vwap_period,
     FFT_PERIOD |-> a.fft_period,
     SIGMA_THRESHOLD |-> a.sigma_threshold,
     REVERSAL_THRESHOLD_PERCENT |-> a.reversal_threshold_percent]

\* run_oracle_analysis called with the arguments of a run, before the
\* fetch of line 318, or analyze_symbol before it calls run_oracle_analysis
\* with the values of config.
PipeInit ==
    \E run \in PipeRuns :
        /\ PipeStart([frame |-> <<>>, args |-> run.args], "idle")
        /\ entry = run.entry
        /\ config = ConfigOf(run.args)
        /\ runpc = (IF run.entry = "none" THEN "fetch" ELSE "start")
        /\ fetched \in FetchResults(run)
        /\ returned = Nothing
        /\ advanced_metrics = NoMetrics

\* Line 323: return None, None, None.
NoneTriple ==
    [kind |-> "tuple", data_df |-> None, oracle_result |-> None,
     backtest_report |-> None]

\* A fetch that also takes an empty frame as data.
NoData_NoneOnly(data_df) == data_df.kind = "None"

\* Line 321: data_df is None or data_df.empty.
NoData(data_df) == data_df.kind = "None" \/ data_df.frame = <<>>

\* Lines 318-326: the fetch, the early return when there is no data, and
\* otherwise the call of calculate_vwap_and_deviation.
Fetch ==
    /\ runpc = "fetch"
    /\ IF NoData(fetched)
       THEN /\ returned' = NoneTriple
            /\ runpc' = "returned"
            /\ UNCHANGED <<frame, indpc>>
       ELSE /\ frame' = fetched.frame
            /\ indpc' = "vwap"
            /\ runpc' = "analysis"
            /\ UNCHANGED returned
    /\ UNCHANGED <<k, sigpc, use_confidence, n, i, df, capital, position,
                   entry_price, entry_bar, position_size, trades, nupdates,
                   equity_curve, pc, result, oracle_output, args, fi,
                   fee_pct, entry, config, fetched, advanced_metrics>>

\* calculate_vwap_and_deviation, lines 58-86.
CalcVwap ==
    /\ indpc = "vwap"
    /\ \E z_prime \in {ZPrimeColumn(frame, args.vwap_period, 1, Len(frame))} :
       \E deviation \in {DeviationColumn(frame, z_prime, 1, Len(frame))} :
       \E sigma \in {SigmaColumn(deviation, args.vwap_period, 1, Len(frame))} :
           frame' = [j \in 1 .. Len(frame) |->
                        Update(frame[j],
                               [Z_prime |-> z_prime[j],
                                Deviation |-> deviation[j],
                                Sigma |-> sigma[j],
                                E |-> DeviationE(deviation[j], sigma[j])])]
    /\ indpc' = "fft"
    /\ UNCHANGED <<k, sigpc, use_confidence, n, i, df, capital, position,
                   entry_price, entry_bar, position_size, trades, nupdates,
                   equity_curve, pc, result, oracle_output, args, fi,
                   fee_pct, runvars>>

\* calculate_fft_phase, lines 99-115: the columns start as NaN; the loop of
\* line 118 is empty when the series is shorter than the period (lines
\* 101-108).
FftStart ==
    /\ indpc = "fft"
    /\ frame' = [j \in 1 .. Len(frame) |->
                    Update(frame[j],
                           [Dominant_Period |-> NaN,
                            Phase_Rad |-> NaN,
                            T_reversal |-> NaN,
                            Dominant_Freq |-> NaN,
                            Spectral_Power |-> NaN])]
    /\ fi' = IF Len(frame) < args.fft_period
             THEN Len(frame) + 1
             ELSE args.fft_period
    /\ indpc' = "fftloop"
    /\ UNCHANGED <<k, sigpc, use_confidence, n, i, df, capital, position,
                   entry_price, entry_bar, position_size, trades, nupdates,
                   equity_curve, pc, result, oracle_output, args, fee_pct, runvars>>

\* Lines 118-150: one iteration of the loop.
FftBar ==
    /\ indpc = "fftloop"
    /\ fi <= Len(frame)
    /\ \E d \in {Detrended(frame, fi, args.fft_period)} :
       \E magnitudes \in {Magnitudes(d)} :
           frame' = [frame EXCEPT ![fi] = FftRow(frame[fi], d, magnitudes)]
    /\ fi' = fi + 1
    /\ UNCHANGED <<indpc, k, sigpc, use_confidence, n, i, df, capital,
                   position, entry_price, entry_bar, position_size, trades,
                   nupdates, equity_curve, pc, result, oracle_output, args,
                   fee_pct, runvars>>

\* Lines 152-155, and the call of generate_signals_rolling at line 328.
FftReturn ==
    /\ indpc = "fftloop"
    /\ fi = Len(frame) + 1
    /\ indpc' = "done"
    /\ sigpc' = "init"
    /\ UNCHANGED <<frame, fi, k, use_confidence, n, i, df, capital,
                   position, entry_price, entry_bar, position_size, trades,
                   nupdates, equity_curve, pc, result, oracle_output, args,
                   fee_pct, runvars>>

\* Lines 346-348 and backtest.py line 253: simulate_trades(df) on the frame
\* with the default use_confidence = True.
StartBacktest ==
    /\ args.enable_backtest
    /\ sigpc = "reported"
    /\ indpc = "done"
    /\ pc = "idle"
    /\ pc' = "loop"
    /\ n' = Len(frame)
    /\ use_confidence' = TRUE
    /\ UNCHANGED <<frame, fi, k, sigpc, indpc, i, df, capital, position,
                   entry_price, entry_bar, position_size, trades, nupdates,
                   equity_curve, result, oracle_output, args, fee_pct, runvars>>

\* calculate_fft_phase alone on the sinusoid.
SineInit ==
    /\ PipeStart([frame |-> SineSeries,
               args |-> [vwap_period |-> SineScenario.vwap_period,
                         fft_period |-> SineScenario.fft_period,
                         sigma_threshold |-> SineScenario.sigma_threshold,
                         reversal_threshold_percent |->
                             reversal_threshold_percent,
                         enable_backtest |-> FALSE,
                         enable_trend_analysis |-> FALSE]],
                 "fft")
    /\ NotCalled

SineNext == FftStart \/ FftBar \/ FftReturn

SpecSine == SineInit /\ [][SineNext]_vars

(***************************************************************************)
(* backtest.py: calculate_advanced_metrics.                                *)
(***************************************************************************)
\* Floating-point arithmetic on numbers that may be NaN or infinite.
FNeg(x) == <<-x[1], x[2]>>

FAdd(x, y) ==
    IF IsNaN(x) \/ IsNaN(y) THEN NaN
    ELSE IF ~IsFinite(x) THEN (IF ~IsFinite(y) /\ y # x THEN NaN ELSE x)
    ELSE IF ~IsFinite(y) THEN y
    ELSE RAdd(x, y)

FMul(x, y) ==
    IF IsNaN(x) \/ IsNaN(y) THEN NaN
    ELSE IF IsFinite(x) /\ IsFinite(y) THEN RMul(x, y)
    ELSE IF x = Zero \/ y = Zero THEN NaN
    ELSE IF (x[1] > 0) = (y[1] > 0) THEN Inf ELSE NegInf

FQuot(x, y) ==
    IF IsNaN(x) \/ IsNaN(y) THEN NaN
    ELSE IF IsFinite(x) /\ IsFinite(y) THEN FDiv(x, y)
    ELSE IF ~IsFinite(x) /\ ~IsFinite(y) THEN NaN
    ELSE IF ~IsFinite(y) THEN Zero
    ELSE IF (x[1] > 0) = (y[1] > 0) THEN x ELSE FNeg(x)

\* x > y and x < y of floats: False when either side is NaN.
FGt(x, y) ==
    /\ ~IsNaN(x)
    /\ ~IsNaN(y)
    /\ x # y
    /\ IF x = NegInf \/ y = Inf THEN FALSE
       ELSE IF x = Inf \/ y = NegInf THEN TRUE
       ELSE RGt(x, y)

FLt(x, y) == FGt(y, x)

\* np.sqrt.
FSqrt(x) == IF IsFinite(x) THEN RSqrt(x) ELSE x

Percent == R(100)

\* The per-bar returns are kept to multiples of 1 / ReturnScale of a percent,
\* which keeps the sums of their squares within 32 bits.
ReturnScale == 10

\* The multiple of 1 / s next to x towards zero, never zero for x # 0; NaN
\* and the infinities are kept.
Rounded(x, s) ==
    IF ~IsFinite(x) \/ x = Zero THEN x
    ELSE LET m == ScaledFloor(RAbs(x), s)
             units == IF m = 0 THEN 1 ELSE m
         IN  RNorm(IF x[1] < 0 THEN -units ELSE units, s)

\* The tuple <<f[from], ..., f[to]>>.
RECURSIVE Tabulate(_, _, _)
Tabulate(f, from, to) ==
    IF from > to THEN <<>>
    ELSE IF from = to THEN <<f[from]>>
    ELSE Tabulate(f, from, (from + to) \div 2)
         \o Tabulate(f, (from + to) \div 2 + 1, to)

\* Line 725: np.diff(equity_curve) / equity_curve[:-1] * 100.
Returns(equity) ==
    [j \in 1 .. Len(equity) - 1 |->
        Rounded(FMul(FQuot(FAdd(equity[j + 1], FNeg(equity[j])), equity[j]),
                     Percent),
                ReturnScale)]

\* The sum of xs[from .. to].
RECURSIVE FSum(_, _, _)
FSum(xs, from, to) ==
    IF from > to THEN Zero
    ELSE IF from = to THEN xs[from]
    ELSE LET mid == (from + to) \div 2
         IN  FAdd(FSum(xs, from, mid), FSum(xs, mid + 1, to))

\* np.mean: NaN (with a warning) for an empty array.
Mean(xs) == FQuot(FSum(xs, 1, Len(xs)), R(Len(xs)))

\* np.std: the population standard deviation (ddof = 0).
Std(xs) ==
    LET mean == Mean(xs)
        squares == [j \in 1 .. Len(xs) |->
                       FMul(FAdd(xs[j], FNeg(mean)), FAdd(xs[j], FNeg(mean)))]
    IN  FSqrt(Mean(squares))

\* Lines 729, 736: np.sqrt(252).
Annualisation == RSqrt(R(252))

\* Lines 728-731.
SharpeRatio(returns) ==
    IF Len(returns) > 1 /\ FGt(Std(returns), Zero)
    THEN FMul(FQuot(Mean(returns), Std(returns)), Annualisation)
    ELSE Zero

\* Line 734: returns[returns < 0].
IsDownside(x) == FLt(x, Zero)

\* Lines 734-738.
SortinoRatio(returns) ==
    LET downside_returns == SelectSeq(returns, IsDownside)
    IN  IF Len(downside_returns) > 1 /\ FGt(Std(downside_returns), Zero)
        THEN FMul(FQuot(Mean(returns), Std(downside_returns)), Annualisation)
        ELSE Zero

\* The maximum of equity[from .. to].
RECURSIVE CumulativeMax(_, _, _)
CumulativeMax(equity, from, to) ==
    IF from = to THEN equity[from]
    ELSE LET before == CumulativeMax(equity, from, (from + to) \div 2)
             after == CumulativeMax(equity, (from + to) \div 2 + 1, to)
         IN  IF FGt(after, before) THEN after ELSE before

\* Lines 741-742: np.maximum.accumulate(equity_curve) at the 1-based index
\* j is the maximum of equity[1 .. j].
Drawdown(equity) ==
    Tabulate([j \in 1 .. Len(equity) |->
                 FMul(FQuot(FAdd(equity[j], FNeg(CumulativeMax(equity, 1, j))),
                            CumulativeMax(equity, 1, j)),
                      Percent)],
             1, Len(equity))

\* np.min of xs[from .. to]: NaN when the array holds a NaN.
RECURSIVE Min(_, _, _)
Min(xs, from, to) ==
    IF from = to THEN xs[from]
    ELSE LET before == Min(xs, from, (from + to) \div 2)
             after == Min(xs, (from + to) \div 2 + 1, to)
         IN  IF IsNaN(before) \/ IsNaN(after) THEN NaN
             ELSE IF FLt(after, before) THEN after ELSE before

\* Line 743.
MaxDrawdownPct(equity) ==
    LET m == Min(Drawdown(equity), 1, Len(equity))
    IN  IF IsNaN(m) THEN NaN ELSE <<Abs(m[1]), m[2]>>

\* Line 746: drawdown < -0.01.
InDrawdown(x) == FLt(x, <<-1, 100>>)

\* The length of the run of bars in drawdown that ends at index j: the
\* bars after the last bar up to j that is not in drawdown.
RunEndingAt(drawdown, j) ==
    LET outside == {m \in 1 .. j : ~InDrawdown(drawdown[m])}
    IN  IF outside = {} THEN j
        ELSE j - (CHOOSE m \in outside : \A o \in outside : o <= m)

\* Lines 747-752: the longest run of consecutive bars in drawdown among the
\* runs that end at from .. to.
RECURSIVE LongestRun(_, _, _)
LongestRun(drawdown, from, to) ==
    IF from > to THEN 0
    ELSE IF from = to THEN RunEndingAt(drawdown, from)
    ELSE LET before == LongestRun(drawdown, from, (from + to) \div 2)
             after == LongestRun(drawdown, (from + to) \div 2 + 1, to)
         IN  IF after > before THEN after ELSE before

\* Lines 755-758.
CalmarRatio(trade_results, max_drawdown_pct) ==
    IF FGt(max_drawdown_pct, Zero)
    THEN FQuot(trade_results.total_return_pct, max_drawdown_pct)
    ELSE Zero

\* Lines 761-764.
RecoveryFactor(trade_results, max_drawdown_pct) ==
    IF FGt(max_drawdown_pct, Zero)
    THEN FQuot(trade_results.total_return,
               FQuot(FMul(trade_results.initial_capital, max_drawdown_pct),
                     Percent))
    ELSE Zero

\* Lines 714-775.
AdvancedMetrics(trade_results) ==
    IF trade_results.total_trades = 0
    THEN [sharpe_ratio |-> Zero,
          sortino_ratio |-> Zero,
          max_drawdown_pct |-> Zero,
          max_drawdown_duration |-> 0,
          calmar_ratio |-> Zero,
          recovery_factor |-> Zero]
    ELSE LET returns == Returns(trade_results.equity_curve)
             drawdown == Drawdown(trade_results.equity_curve)
             max_drawdown_pct == MaxDrawdownPct(trade_results.equity_curve)
         IN  [sharpe_ratio |-> SharpeRatio(returns),
              sortino_ratio |-> SortinoRatio(returns),
              max_drawdown_pct |-> max_drawdown_pct,
              max_drawdown_duration |->
                  LongestRun(drawdown, 1, Len(drawdown)),
              calmar_ratio |-> CalmarRatio(trade_results, max_drawdown_pct),
              recovery_factor |->
                  RecoveryFactor(trade_results, max_drawdown_pct),
              avg_return_per_bar |->
                  IF Len(returns) > 0 THEN Mean(returns) ELSE Zero,
              volatility |->
                  IF Len(returns) > 1 THEN Std(returns) ELSE Zero]

\* backtest.py line 256: advanced_metrics = calculate_advanced_metrics(
\* trade_sim), on the dict simulate_trades has returned.
CalculateAdvancedMetrics ==
    /\ pc = "done"
    /\ \E m \in {AdvancedMetrics(result)} : advanced_metrics' = m
    /\ pc' = "metrics"
    /\ UNCHANGED <<use_confidence, n, i, df, capital, position, entry_price,
                   entry_bar, position_size, trades, nupdates, equity_curve,
                   result, frame, k, sigpc, oracle_output, args, indpc, fi,
                   fee_pct, entry, config, runpc, fetched, returned>>

\* simulate_trades followed by calculate_advanced_metrics, with fee_pct = 0
\* or 1/100.
NextMetrics ==
    ProcessBar \/ CloseRemaining \/ Return \/ CalculateAdvancedMetrics

SpecMetrics == InitFees /\ [][NextMetrics]_vars

(***************************************************************************)
(* trend_analysis.py: enhance_signal_with_context.                         *)
(*                                                                         *)
(* The rows keep the columns the adjustment of Confidence reads and the    *)
(* labels they are derived from; the numeric intermediates (SMA_Short,     *)
(* SMA_Long, LR_Slope, DI_Diff, Trend_Strength, ATR, Efficiency_Ratio) are *)
(* computed where a label needs them and are not stored.                   *)
(***************************************************************************)
\* The default windows: short_period and long_period (line 12), the
\* smoothing window of lines 57-58, volatility_period (line 81), the
\* quantile of line 121 in quarters, lookback (line 184) and the score of
\* line 242.
TrendParams ==
    [short_period |-> 20, long_period |-> 50, smooth_period |-> 14,
     volatility_period |-> 20, quantile_quarters |-> 3, lookback |-> 10,
     consistent_above |-> 70]

\* df['close'].
CloseColumn(fr) == Tabulate([j \in 1 .. Len(fr) |-> fr[j].close], 1, Len(fr))

\* rolling(window).sum() at the 1-based row j: NaN until the window is full
\* and while it holds a NaN.
RollingSum(xs, j, window) ==
    IF j < window
    THEN NaN
    ELSE FSum(xs, j - window + 1, j)

\* rolling(window).mean().
RollingMean(xs, j, window) == FDiv(RollingSum(xs, j, window), R(window))

\* Lines 25-27.
MATrend(closes, j) ==
    IF FGt(RollingMean(closes, j, TrendParams.short_period),
           RollingMean(closes, j, TrendParams.long_period))
    THEN "Uptrend"
    ELSE "Downtrend"

\* The sum over t = from .. to of (2 t - (window - 1)) * xs[first + t].
RECURSIVE SlopeNumerator(_, _, _, _, _)
SlopeNumerator(xs, first, window, from, to) ==
    IF from > to THEN Zero
    ELSE IF from = to
    THEN RMul(R(2 * from - (window - 1)), xs[first + from])
    ELSE RAdd(SlopeNumerator(xs, first, window, from, (from + to) \div 2),
              SlopeNumerator(xs, first, window, (from + to) \div 2 + 1, to))

\* Lines 30-37: the least-squares slope np.polyfit(x, series, 1) of the
\* window over x = 0 .. window - 1, which is the sum of (x - mean(x)) * y
\* over the sum of (x - mean(x))^2 = window (window^2 - 1) / 12.
LRSlope(closes, j, window) ==
    IF j < window
    THEN NaN
    ELSE RDiv(SlopeNumerator(closes, j - window + 1, window, 0, window - 1),
              R((window * (window * window - 1)) \div 6))

\* Line 38.
LRTrend(closes, j) ==
    IF FGt(LRSlope(closes, j, TrendParams.short_period), Zero)
    THEN "Uptrend"
    ELSE "Downtrend"

\* Line 41: df['high'].diff().
HighDiff(fr, j) == IF j = 1 THEN NaN ELSE RSub(fr[j].high, fr[j - 1].high)

\* Line 42: -df['low'].diff().
LowDiff(fr, j) == IF j = 1 THEN NaN ELSE RSub(fr[j - 1].low, fr[j].low)

\* Lines 44-48.
PlusDM(fr, j) ==
    IF FGt(HighDiff(fr, j), LowDiff(fr, j)) /\ FGt(HighDiff(fr, j), Zero)
    THEN HighDiff(fr, j)
    ELSE Zero

\* Lines 50-54.
MinusDM(fr, j) ==
    IF FGt(LowDiff(fr, j), HighDiff(fr, j)) /\ FGt(LowDiff(fr, j), Zero)
    THEN LowDiff(fr, j)
    ELSE Zero

\* Lines 57-61: DI_Diff from the columns Plus_DM and Minus_DM.
DIDiff(plus_dm, minus_dm, j) ==
    FSub(RollingMean(plus_dm, j, TrendParams.smooth_period),
         RollingMean(minus_dm, j, TrendParams.smooth_period))

\* Line 62.
DMTrend(plus_dm, minus_dm, j) ==
    IF FGt(DIDiff(plus_dm, minus_dm, j), Zero) THEN "Uptrend" ELSE "Downtrend"

\* Lines 68-71: the majority of the three labels.
TrendConsensus(ma_trend, lr_trend, dm_trend) ==
    IF Cardinality({m \in 1 .. 3 :
                       <<ma_trend, lr_trend, dm_trend>>[m] = "Uptrend"}) >= 2
    THEN "Uptrend"
    ELSE "Downtrend"

\* detect_trend, lines 25-71: the labels of the row j.
DetectTrend(fr, closes, plus_dm, minus_dm, j) ==
    [MA_Trend |-> MATrend(closes, j),
     LR_Trend |-> LRTrend(closes, j),
     DM_Trend |-> DMTrend(plus_dm, minus_dm, j),
     Trend_Consensus |->
         TrendConsensus(MATrend(closes, j), LRTrend(closes, j),
                        DMTrend(plus_dm, minus_dm, j))]

\* Line 92: df['close'].pct_change().
PctChange(closes, j) ==
    IF j = 1
    THEN NaN
    ELSE FDiv(FSub(closes[j], closes[j - 1]), closes[j - 1])

\* Line 93.
Volatility(returns, j) ==
    FMul(RollingStd(returns, j, TrendParams.volatility_period), Percent)

\* Series.dropna().
DropNa(xs) == SelectSeq(xs, LAMBDA x : ~IsNaN(x))

\* The element of index kth (from 0) of the sorted values of xs.
KthSmallest(xs, kth) ==
    CHOOSE v \in {xs[m] : m \in 1 .. Len(xs)} :
        /\ Cardinality({m \in 1 .. Len(xs) : RLt(xs[m], v)}) <= kth
        /\ kth < Cardinality({m \in 1 .. Len(xs) : RLe(xs[m], v)})

\* Series.quantile(quarters / 4): NaN values are skipped, the result is
\* interpolated linearly between the two neighbours of the rank
\* (count - 1) * quarters / 4, and is NaN when nothing is left.
Quantile(xs, quarters) ==
    LET values == DropNa(xs)
        rank == (Len(values) - 1) * quarters
        below == KthSmallest(values, rank \div 4)
    IN  IF Len(values) = 0 THEN NaN
        ELSE IF rank % 4 = 0 THEN below
        ELSE RAdd(below,
                  RMul(RNorm(rank % 4, 4),
                       RSub(KthSmallest(values, rank \div 4 + 1), below)))

\* Line 108.
PriceChange(closes, j) ==
    IF j <= TrendParams.volatility_period
    THEN NaN
    ELSE RAbs(RSub(closes[j], closes[j - TrendParams.volatility_period]))

\* Line 96.
PriceRange(fr, j) == RSub(fr[j].high, fr[j].low)

\* Line 109.
PathLength(price_range, j) ==
    RollingSum(price_range, j, TrendParams.volatility_period)

\* Lines 110 and 123: Price_Change / (Path_Length + 1e-10) > 0.5.  The
\* prices are multiples of 1 / 1000 at most, so twice the price change
\* exceeds the path length plus 1e-10 exactly when it exceeds the path
\* length.
EfficiencyAboveHalf(price_change, path_length) ==
    FGt(FMul(R(2), price_change), path_length)

\* Lines 113-126: classify_regime; threshold is
\* df['Volatility'].quantile(0.75) of the whole frame.
ClassifyRegime(volatility, threshold, price_change, path_length) ==
    IF IsNaN(price_change) \/ IsNaN(path_length) \/ IsNaN(volatility)
    THEN "Unknown"
    ELSE IF FGt(volatility, threshold) THEN "Volatile"
    ELSE IF EfficiencyAboveHalf(price_change, path_length) THEN "Trending"
    ELSE "Ranging"

\* interpret_phase_with_trend, lines 146-176: the two columns of one row.
InterpretPhase(r, trend, regime) ==
    IF IsNaN(r.T_reversal) \/ r.Signal = "HOLD"
    THEN [Phase_Context |-> "Neutral", Signal_Quality |-> "Medium"]
    ELSE IF regime = "Ranging"
    THEN [Phase_Context |-> "Mean_Reversion_Favorable",
          Signal_Quality |-> "High"]
    ELSE IF regime = "Trending"
    THEN IF \/ r.Signal = "BUY" /\ trend = "Uptrend"
            \/ r.Signal = "SELL" /\ trend = "Downtrend"
         THEN [Phase_Context |-> "Trend_Aligned", Signal_Quality |-> "High"]
         ELSE [Phase_Context |-> "Counter_Trend", Signal_Quality |-> "Low"]
    ELSE IF regime = "Volatile"
    THEN [Phase_Context |-> "High_Volatility", Signal_Quality |-> "Low"]
    ELSE [Phase_Context |-> "Neutral", Signal_Quality |-> "Medium"]

\* Series.std(): the sample standard deviation (ddof = 1), NaN for fewer
\* than two values.
SampleStd(xs) ==
    IF Len(xs) < 2
    THEN NaN
    ELSE RSqrt(RDiv(SumSquares(xs, Mean(xs), 1, Len(xs)), R(Len(xs) - 1)))

\* max(0, x) of Python: x when x > 0 is True, else 0, so 0 for NaN.
MaxZero(x) == IF FGt(x, Zero) THEN x ELSE Zero

\* calculate_cycle_consistency, lines 191-202, for the 1-based row j: the
\* Dominant_Period of the lookback rows before it.  The periods are at least
\* 1, so the 1e-10 added to their mean is left out.
CycleConsistency(periods, j) ==
    IF j <= TrendParams.lookback
    THEN NaN
    ELSE LET recent_periods ==
                 DropNa(SubSeq(periods, j - TrendParams.lookback, j - 1))
             cv == FDiv(SampleStd(recent_periods), Mean(recent_periods))
         IN  IF Len(recent_periods) > 0
             THEN MaxZero(FSub(Percent, FMul(cv, Percent)))
             ELSE NaN

\* Lines 238-246: the two tests exclude each other.
AdjustedConfidence(current_confidence, signal_quality, cycle_consistency) ==
    IF signal_quality = "Low" /\ current_confidence = "High"
    THEN "Medium"
    ELSE IF /\ signal_quality = "High"
            /\ ~IsNaN(cycle_consistency)
            /\ FGt(cycle_consistency, R(TrendParams.consistent_above))
    THEN IF current_confidence = "Low" THEN "Medium"
         ELSE IF current_confidence = "Medium" THEN "High"
         ELSE current_confidence
    ELSE current_confidence

\* Lines 229-246: one iteration of the loop over the rows.
EnhanceRow(r) ==
    IF r.Signal = "HOLD"
    THEN r
    ELSE [r EXCEPT !.Confidence =
                       AdjustedConfidence(r.Confidence, r.Signal_Quality,
                                          r.Cycle_Consistency)]

\* oracle.py lines 331-339: enhance_signal_with_context(data_df) when
\* enable_trend_analysis is set; get_regime_statistics only reads the
\* frame.
TrendAnalysis ==
    /\ args.enable_trend_analysis
    /\ sigpc = "done"
    /\ \E closes \in {CloseColumn(frame)} :
       \E plus_dm \in {Tabulate([j \in 1 .. Len(frame) |-> PlusDM(frame, j)],
                                1, Len(frame))} :
       \E minus_dm \in {Tabulate([j \in 1 .. Len(frame) |->
                                    MinusDM(frame, j)], 1, Len(frame))} :
       \E returns \in {Tabulate([j \in 1 .. Len(frame) |->
                                   PctChange(closes, j)], 1, Len(frame))} :
       \E volatility \in {Tabulate([j \in 1 .. Len(frame) |->
                                      Volatility(returns, j)],
                                   1, Len(frame))} :
       \E threshold \in {Quantile(volatility,
                                  TrendParams.quantile_quarters)} :
       \E price_range \in {Tabulate([j \in 1 .. Len(frame) |->
                                       PriceRange(frame, j)],
                                    1, Len(frame))} :
       \E periods \in {Tabulate([j \in 1 .. Len(frame) |->
                                   frame[j].Dominant_Period],
                                1, Len(frame))} :
           frame' =
              [j \in 1 .. Len(frame) |->
                  LET trend == DetectTrend(frame, closes, plus_dm, minus_dm, j)
                      regime ==
                          ClassifyRegime(volatility[j], threshold,
                                         PriceChange(closes, j),
                                         PathLength(price_range, j))
                  IN  EnhanceRow(
                          Update(frame[j],
                                 trend
                                 @@ [Volatility |-> volatility[j],
                                     Market_Regime |-> regime,
                                     Cycle_Consistency |->
                                         CycleConsistency(periods, j)]
                                 @@ InterpretPhase(frame[j],
                                                   trend.Trend_Consensus,
                                                   regime)))]
    /\ sigpc' = "enhanced"
    /\ UNCHANGED <<k, use_confidence, n, i, df, capital, position,
                   entry_price, entry_bar, position_size, trades, nupdates,
                   equity_curve, pc, result, oracle_output, args, indpc, fi,
                   fee_pct, runvars>>

(***************************************************************************)
(* backtest.py: print_backtest_report, and the return of                   *)
(* run_oracle_analysis.                                                    *)
(***************************************************************************)
\* The keys of report['trade_simulation'] that print_backtest_report reads
\* at lines 352-366 and that the model keeps.
PrintedKeys ==
    {"initial_capital", "final_capital", "total_return", "total_return_pct",
     "total_trades", "winning_trades", "losing_trades", "profit_factor"}

\* A dict lookup ts[key] for every key of keys: the first key that is
\* missing raises KeyError.
Raises(ts, keys) == \E key \in keys : key \notin DOMAIN ts

\* An exception leaving run_oracle_analysis.
Raised(exception) == [kind |-> "raised", exception |-> exception]

\* oracle.py line 348 and backtest.py lines 344-389: print_backtest_report
\* reads the trade simulation's keys when the dict is not empty (the dict
\* simulate_trades returns never is).
PrintReport ==
    /\ runpc = "analysis"
    /\ pc = "metrics"
    /\ IF Raises(result, PrintedKeys)
       THEN /\ returned' = Raised("KeyError")
            /\ runpc' = "raised"
            /\ pc' = "raised"
       ELSE /\ pc' = "printed"
            /\ UNCHANGED <<returned, runpc>>
    /\ UNCHANGED <<use_confidence, n, i, df, capital, position, entry_price,
                   entry_bar, position_size, trades, nupdates, equity_curve,
                   result, frame, k, sigpc, oracle_output, args, indpc, fi,
                   fee_pct, entry, config, fetched, advanced_metrics>>

\* Line 357: return data_df, oracle_result, backtest_report.
ReturnAnalysis ==
    /\ runpc = "analysis"
    /\ sigpc = "reported"
    /\ IF args.enable_backtest THEN pc = "printed" ELSE pc = "idle"
    /\ returned' =
          [kind |-> "tuple",
           data_df |-> DataFrame(frame),
           oracle_result |-> [kind |-> "dict", dict |-> oracle_output],
           backtest_report |->
               IF args.enable_backtest
               THEN [kind |-> "dict",
                     trade_simulation |-> result,
                     advanced_metrics |-> advanced_metrics]
               ELSE None]
    /\ runpc' = "returned"
    /\ UNCHANGED <<use_confidence, n, i, df, capital, position, entry_price,
                   entry_bar, position_size, trades, nupdates, equity_curve,
                   pc, result, frame, k, sigpc, oracle_output, args, indpc,
                   fi, fee_pct, entry, config, fetched, advanced_metrics>>

(***************************************************************************)
(* config.py: validate_config, and the two callers of run_oracle_analysis. *)
(***************************************************************************)
\* Values of the module config.
Configs ==
    [LIMIT : {2, 5},
     VWAP_PERIOD : {-1, 0, 2},
     FFT_PERIOD : {-4, 0, 3, 4},
     SIGMA_THRESHOLD : {R(-1), Zero, R(2)},
     REVERSAL_THRESHOLD_PERCENT : {Zero, <<1, 10>>}]

\* a & b of Python integers (two's complement of unbounded width).
RECURSIVE BitAnd(_, _)
BitAnd(a, b) ==
    IF a = 0 \/ b = 0 THEN 0
    ELSE IF a = -1 THEN b
    ELSE IF b = -1 THEN a
    ELSE (a % 2) * (b % 2) + 2 * BitAnd(a \div 2, b \div 2)

Max(a, b) == IF a >= b THEN a ELSE b

\* config.py lines 96-108: the list errors.
ConfigErrors(c) ==
    {e \in {"LIMIT", "SIGMA_THRESHOLD", "REVERSAL_THRESHOLD_PERCENT",
            "FFT_PERIOD"} :
        \/ e = "LIMIT" /\ c.LIMIT < Max(c.VWAP_PERIOD, c.FFT_PERIOD)
        \/ e = "SIGMA_THRESHOLD" /\ RLe(c.SIGMA_THRESHOLD, Zero)
        \/ e = "REVERSAL_THRESHOLD_PERCENT"
              /\ ~(RLt(Zero, c.REVERSAL_THRESHOLD_PERCENT)
                   /\ RLt(c.REVERSAL_THRESHOLD_PERCENT, One))
        \/ e = "FFT_PERIOD" /\ BitAnd(c.FFT_PERIOD, c.FFT_PERIOD - 1) # 0}

\* The one bar a successful fetch returns to the callers.
OneBar == <<Bar(R(100), 1)>>

\* Before the __main__ block of oracle.py reaches line 386, or before
\* analyze_symbol is called.
ConfigInit ==
    /\ PipeStart([frame |-> <<>>, args |-> DefaultArgs], "idle")
    /\ entry \in {"main", "analyze_symbol"}
    /\ config \in Configs
    /\ runpc = "start"
    /\ fetched \in {None, DataFrame(OneBar)}
    /\ returned = Nothing
    /\ advanced_metrics = NoMetrics

\* oracle.py lines 386-391: validate_config(), and exit(1) on ValueError.
ValidateConfig ==
    /\ entry = "main"
    /\ runpc = "start"
    /\ runpc' = IF ConfigErrors(config) = {} THEN "validated" ELSE "rejected"
    /\ UNCHANGED <<frame, indpc, k, sigpc, use_confidence, n, i, df, capital,
                   position, entry_price, entry_bar, position_size, trades,
                   nupdates, equity_curve, pc, result, oracle_output, args,
                   fi, fee_pct, entry, config, fetched, returned,
                   advanced_metrics>>

\* The arguments both callers take from config.
ConfigArgs(c, backtest, trend) ==
    [vwap_period |-> c.VWAP_PERIOD,
     fft_period |-> c.FFT_PERIOD,
     sigma_threshold |-> c.SIGMA_THRESHOLD,
     reversal_threshold_percent |-> c.REVERSAL_THRESHOLD_PERCENT,
     enable_backtest |-> backtest,
     enable_trend_analysis |-> trend]

\* oracle.py lines 362-363 and 407-420: the call of run_oracle_analysis with
\* the values of config and the flags --backtest and --trend of sys.argv.
MainCallsAnalysis ==
    /\ entry = "main"
    /\ runpc = "validated"
    /\ \E backtest \in BOOLEAN, trend \in BOOLEAN :
          args' = ConfigArgs(config, backtest, trend)
    /\ runpc' = "fetch"
    /\ UNCHANGED <<frame, indpc, k, sigpc, use_confidence, n, i, df, capital,
                   position, entry_price, entry_bar, position_size, trades,
                   nupdates, equity_curve, pc, result, oracle_output, fi,
                   fee_pct, entry, config, fetched, returned,
                   advanced_metrics>>

\* api_wrapper.py lines 33-62: analyze_symbol calls run_oracle_analysis with
\* the values of config, enable_backtest=False and
\* enable_trend_analysis=True.
AnalyzeSymbolCallsAnalysis ==
    /\ entry = "analyze_symbol"
    /\ runpc = "start"
    /\ args' = ConfigArgs(config, FALSE, TRUE)
    /\ runpc' = "fetch"
    /\ UNCHANGED <<frame, indpc, k, sigpc, use_confidence, n, i, df, capital,
                   position, entry_price, entry_bar, position_size, trades,
                   nupdates, equity_curve, pc, result, oracle_output, fi,
                   fee_pct, entry, config, fetched, returned,
                   advanced_metrics>>

\* The two callers up to the first indicator call of run_oracle_analysis.
ConfigNext ==
    ValidateConfig \/ MainCallsAnalysis \/ AnalyzeSymbolCallsAnalysis \/ Fetch

SpecConfig == ConfigInit /\ [][ConfigNext]_vars

(***************************************************************************)
(* run_oracle_analysis called directly and through analyze_symbol.         *)
(***************************************************************************)
\* api_wrapper.py lines 65-76: analyze_symbol returns result[0], and None
\* when run_oracle_analysis raised.
AnalyzeSymbolReturns ==
    /\ entry = "analyze_symbol"
    /\ runpc \in {"returned", "raised"}
    /\ returned' = IF returned.kind = "tuple" THEN returned.data_df ELSE None
    /\ runpc' = "api_returned"
    /\ UNCHANGED <<frame, indpc, k, sigpc, use_confidence, n, i, df, capital,
                   position, entry_price, entry_bar, position_size, trades,
                   nupdates, equity_curve, pc, result, oracle_output, args,
                   fi, fee_pct, entry, config, fetched, advanced_metrics>>

PipeNext ==
    \/ AnalyzeSymbolCallsAnalysis
    \/ Fetch \/ CalcVwap \/ FftStart \/ FftBar \/ FftReturn
    \/ InitColumns \/ SignalBar \/ SignalReturn \/ TrendAnalysis
    \/ GenerateSignal
    \/ StartBacktest \/ ProcessBar \/ CloseRemaining \/ Return
    \/ CalculateAdvancedMetrics \/ PrintReport \/ ReturnAnalysis
    \/ AnalyzeSymbolReturns

SpecPipeline == PipeInit /\ [][PipeNext]_vars

(***************************************************************************)
(* Properties of simulate_trades.                                          *)
(***************************************************************************)
\* A step of the loop that processes the row with 0-based index i.
BarStep == pc = "loop" /\ i' = i + 1

OpenTrades(ts) == {j \in 1 .. Len(ts) : ~HasExit(ts[j])}

SameEntry(t, u) ==
    /\ t.entry_bar = u.entry_bar
    /\ t.entry_price = u.entry_price
    /\ t.position = u.position
    /\ t.position_size = u.position_size
    /\ t.entry_fee = u.entry_fee
    /\ t.confidence = u.confidence

\* C1: after every step at most one trade lacks its exit fields (and while
\* the loop runs such a trade exists exactly when a position is open, and it
\* is the last one); the trades already in the list stay in place with their
\* entry fields, a closed trade never changes again, and update() has been
\* called once on every closed trade and never on an open one.
C1_OneOpenAppendOnly ==
    [][/\ Cardinality(OpenTrades(trades')) <= 1
       /\ OpenTrades(trades') \subseteq {Len(trades')}
       /\ pc' = "loop" => (position' = "NONE" <=> OpenTrades(trades') = {})
       /\ Len(trades') >= Len(trades)
       /\ \A j \in 1 .. Len(trades) :
             /\ SameEntry(trades'[j], trades[j])
             /\ HasExit(trades[j]) => trades'[j] = trades[j]
       /\ \A j \in 1 .. Len(trades') :
             nupdates'[j] = IF HasExit(trades'[j]) THEN 1 ELSE 0]_vars

C1_Witness ==
    /\ Len(trades) = 2
    /\ HasExit(trades[1])
    /\ ~HasExit(trades[2])
    /\ nupdates = <<1, 0>>

\* The exit rules of the open position as the specification states them,
\* for the row b with 0-based index idx.
StopHit(b) ==
    IF position = "LONG"
    THEN RLe(b.close, RMul(entry_price, RSub(One, stop_loss_pct)))
    ELSE RGe(b.close, RMul(entry_price, RAdd(One, stop_loss_pct)))

TargetHit(b) ==
    IF position = "LONG"
    THEN RGe(b.close, RMul(entry_price, RAdd(One, take_profit_pct)))
    ELSE RLe(b.close, RMul(entry_price, RSub(One, take_profit_pct)))

Reversal(b) ==
    IF position = "LONG" THEN b.Signal = "SELL" ELSE b.Signal = "BUY"

HeldTooLong(idx) == idx - entry_bar > MaxHoldBars

ExitDue(b, idx) == StopHit(b) \/ TargetHit(b) \/ Reversal(b) \/ HeldTooLong(idx)

FirstReason(b, idx) ==
    IF StopHit(b) THEN "Stop Loss"
    ELSE IF TargetHit(b) THEN "Take Profit"
    ELSE IF Reversal(b) THEN "Signal Reversal"
    ELSE "Max Hold Period"

\* C2: with the confidence filter enabled, a position that is open when bar
\* i is processed and whose stop-loss, take-profit, signal-reversal or
\* max-hold rule holds on bar i is closed on bar i.
C2_ExitCheckedEveryBar ==
    [][(BarStep /\ use_confidence /\ position # "NONE" /\ ExitDue(df'[i'], i))
          => /\ HasExit(Last(trades'))
             /\ Last(trades').exit_bar = i]_vars

\* C3: the value appended to the equity curve for a bar is the capital when
\* the account is flat after the bar, capital + size * price when it is
\* long and capital - size * price when it is short.
C3_EquityMarkToMarket ==
    [][BarStep =>
          Last(equity_curve') =
             IF position' = "NONE" THEN capital'
             ELSE IF position' = "LONG"
                  THEN RAdd(capital', RMul(position_size', df'[i'].close))
                  ELSE RSub(capital', RMul(position_size', df'[i'].close))]_vars

AllHold(rows) == \A j \in 1 .. Len(rows) : rows[j].Signal = "HOLD"

\* C4: a run over a series whose signal is HOLD on every bar returns zero
\* trades, final_capital = initial_capital and an equity curve whose every
\* value is initial_capital.
C4_AllHoldIsFlat ==
    (pc = "done" /\ AllHold(df))
       => /\ result.total_trades = 0
          /\ result.trades = <<>>
          /\ result.final_capital = initial_capital
          /\ \A j \in 1 .. Len(result.equity_curve) :
                result.equity_curve[j] = initial_capital

C4_Witness ==
    /\ pc = "done"
    /\ AllHold(df)
    /\ use_confidence
    /\ \E j, l \in 1 .. Len(df) :
          /\ df[j].close # df[l].close
          /\ df[j].Confidence = "High"
          /\ df[l].Confidence = "Low"

\* C5: with the confidence filter disabled, a position entered on an earlier
\* bar is closed on bar i exactly when one of its four exit rules holds on
\* bar i, and the exit reason recorded is the first rule that holds in the
\* order Stop Loss, Take Profit, Signal Reversal, Max Hold Period.
C5_ExitRules ==
    [][(BarStep /\ ~use_confidence /\ position # "NONE")
          => /\ HasExit(Last(trades')) <=> ExitDue(df'[i'], i)
             /\ position' = "NONE" <=> ExitDue(df'[i'], i)
             /\ ExitDue(df'[i'], i) =>
                   /\ Last(trades').exit_reason = FirstReason(df'[i'], i)
                   /\ Last(trades').exit_bar = i]_vars

C5_Witness ==
    /\ ~use_confidence
    /\ trades # <<>>
    /\ HasExit(Last(trades))
    /\ Last(trades).exit_reason = "Max Hold Period"

PassesFilter(b) == ~use_confidence \/ b.Confidence = "High"

Opened(b, side, debit) ==
    LET size == RDiv(RMul(capital, position_size_pct), b.close)
    IN  /\ position' = side
        /\ Len(trades') = Len(trades) + 1
        /\ ~HasExit(Last(trades'))
        /\ Last(trades').position = side
        /\ Last(trades').entry_bar = i
        /\ Last(trades').entry_price = b.close
        /\ Last(trades').position_size = size
        /\ position_size' = size
        /\ capital' = RSub(capital, RMul(RMul(size, b.close), debit))

OpensOnSignal(b) ==
    /\ b.Signal = "BUY" => Opened(b, "LONG", RAdd(One, fee_pct))
    /\ b.Signal = "SELL" => Opened(b, "SHORT", RNeg(RSub(One, fee_pct)))

\* C6 as stated: whenever the account is flat and the bar's signal is BUY
\* (SELL) and the bar passes the confidence filter, a Long (Short) trade of
\* size capital * position_size_pct / price is opened on that bar and
\* capital is debited by size * price * (1 + fee_pct) (credited by
\* size * price * (1 - fee_pct)).
C6_Original ==
    [][(BarStep /\ position = "NONE" /\ PassesFilter(df'[i']))
          => OpensOnSignal(df'[i'])]_vars

\* C6 amended: the same, provided capital is positive when the bar is
\* processed.
C6_OpensWhenFlatAndSolvent ==
    [][(BarStep /\ position = "NONE" /\ PassesFilter(df'[i'])
          /\ RGt(capital, Zero))
          => OpensOnSignal(df'[i'])]_vars

C6_Witness ==
    /\ pc = "loop"
    /\ use_confidence
    /\ position = "SHORT"
    /\ Len(trades) = 2
    /\ Last(trades).entry_bar = i - 1
    /\ df[i].Signal = "SELL"

ClosedTradeIdentity(t) ==
    /\ t.total_fees = RAdd(t.entry_fee, t.exit_fee)
    /\ t.pnl = IF t.position = "LONG"
               THEN RSub(RMul(t.position_size, t.exit_price),
                         RMul(t.position_size, t.entry_price))
               ELSE RSub(RMul(t.position_size, t.entry_price),
                         RMul(t.position_size, t.exit_price))
    /\ t.net_pnl = RSub(t.pnl, t.total_fees)

\* C7: every closed trade of the returned result, whatever its exit reason,
\* has total_fees = entry_fee + exit_fee, pnl = size * exit_price - size *
\* entry_price (the negative for a short) and net_pnl = pnl - total_fees.
C7_AccountingIdentity ==
    pc = "done" =>
       \A j \in 1 .. Len(result.trades) : ClosedTradeIdentity(result.trades[j])

\* C8: the step after the loop closes a position that is still open at the
\* last bar's close with reason End of Data and charges the exit fee to
\* capital; the returned trades are all the trades, each with its exit
\* fields.
C8_ClosedAtEndOfData ==
    [][/\ (pc = "loop" /\ pc' = "stats" /\ position # "NONE") =>
             LET t == Last(trades')
                 notional == RMul(position_size, Last(df).close)
                 fee == RMul(notional, fee_pct)
             IN  /\ HasExit(t)
                 /\ t.exit_reason = "End of Data"
                 /\ t.exit_price = Last(df).close
                 /\ t.exit_bar = n - 1
                 /\ t.exit_fee = fee
                 /\ capital' = IF position = "LONG"
                               THEN RSub(RAdd(capital, notional), fee)
                               ELSE RSub(RSub(capital, notional), fee)
       /\ pc' = "done" =>
             /\ result'.trades = trades'
             /\ result'.total_trades = Len(trades')
             /\ \A j \in 1 .. Len(trades') : HasExit(trades'[j])]_vars

C8_Witness ==
    /\ pc = "done"
    /\ position = "LONG"
    /\ Len(result.trades) = 1
    /\ Last(result.trades).exit_reason = "End of Data"
    /\ Last(result.trades).exit_price # Last(result.trades).entry_price

\* C9: with the confidence filter enabled every trade was entered on a bar
\* whose confidence is High.
C9_HighConfidenceEntries ==
    use_confidence =>
       /\ \A j \in 1 .. Len(trades) :
             /\ trades[j].confidence = "High"
             /\ df[trades[j].entry_bar + 1].Confidence = "High"
       /\ pc = "done" =>
             \A j \in 1 .. Len(result.trades) :
                result.trades[j].confidence = "High"

C9_Witness ==
    /\ use_confidence
    /\ pc = "done"
    /\ Len(result.trades) = 1
    /\ result.trades[1].entry_bar = 1
    /\ df[1].Signal = "BUY"
    /\ df[1].Confidence = "Low"

(***************************************************************************)
(* Properties of generate_signals_rolling.                                 *)
(***************************************************************************)
Aligned(r) ==
    /\ RGt(r.E, sigma_threshold) \/ RLt(r.E, RNeg(sigma_threshold))
    /\ RLt(r.T_reversal, RMul(r.Dominant_Period, reversal_threshold_percent))

\* C10: a processed row whose E, T_reversal and Dominant_Period are all
\* defined has signal BUY and direction Long iff |E| > sigma_threshold and
\* T_reversal < Dominant_Period * reversal_threshold_percent and E < 0, SELL
\* and Short iff the same two tests hold and E > 0, and HOLD and N/A in
\* every other case.
C10_SignalClassification ==
    \A j \in 1 .. k :
       ~Undefined(frame[j]) =>
          <<frame[j].Signal, frame[j].Direction>> =
             IF Aligned(frame[j]) /\ RLt(frame[j].E, Zero)
             THEN <<"BUY", "Long">>
             ELSE IF Aligned(frame[j]) /\ RGt(frame[j].E, Zero)
                  THEN <<"SELL", "Short">>
                  ELSE <<"HOLD", "N/A">>

C10_Witness ==
    /\ sigpc = "done"
    /\ \E j, l \in 1 .. Len(frame) :
          /\ frame[j].Signal = "BUY"
          /\ frame[l].Signal = "SELL"

\* C11: every row generate_signals_rolling has passed whose E, T_reversal or
\* Dominant_Period is NaN keeps Signal HOLD, Direction N/A and Confidence
\* N/A, whatever its Volume_Ratio is.
C11_UndefinedRowsHold ==
    \A j \in 1 .. k :
        Undefined(frame[j]) =>
            /\ frame[j].Signal = "HOLD"
            /\ frame[j].Direction = "N/A"
            /\ frame[j].Confidence = "N/A"

\* A finished run with a row that is undefined although its Volume_Ratio is
\* a number.
C11_Witness ==
    /\ sigpc = "done"
    /\ \E j \in 1 .. k :
          /\ Undefined(frame[j])
          /\ ~IsNaN(frame[j].Volume_Ratio)
          /\ frame[j].Confidence = "N/A"

\* C12 as stated: the dict generate_signal returns has Final_Signal in
\* {BUY, SELL, HOLD}, and HOLD / N/A / N/A when the last row is undefined.
C12_Original ==
    sigpc = "reported" =>
        /\ oracle_output.Final_Signal \in {"BUY", "SELL", "HOLD"}
        /\ Undefined(Last(frame)) =>
               /\ oracle_output.Final_Signal = "HOLD"
               /\ oracle_output.Direction = "N/A"
               /\ oracle_output.Confidence = "N/A"

\* C12: the dict generate_signal returns has Final_Signal INSUFFICIENT_DATA,
\* Direction N/A and Confidence N/A when E, T_reversal or Dominant_Period of
\* the last row is NaN; otherwise Final_Signal is the last row's Signal, one
\* of BUY, SELL and HOLD, with the row's Direction and Confidence.
C12_LatestRecord ==
    sigpc = "reported" =>
        IF Undefined(Last(frame))
        THEN /\ oracle_output.Final_Signal = "INSUFFICIENT_DATA"
             /\ oracle_output.Direction = "N/A"
             /\ oracle_output.Confidence = "N/A"
        ELSE /\ oracle_output.Final_Signal \in {"BUY", "SELL", "HOLD"}
             /\ oracle_output.Final_Signal = Last(frame).Signal
             /\ oracle_output.Direction = Last(frame).Direction
             /\ oracle_output.Confidence = Last(frame).Confidence

\* generate_signal has returned for a last row whose E is a number and whose
\* T_reversal is NaN.
C12_Witness ==
    /\ sigpc = "reported"
    /\ ~IsNaN(Last(frame).E)
    /\ IsNaN(Last(frame).T_reversal)
    /\ oracle_output.Final_Signal = "INSUFFICIENT_DATA"

\* C13 as stated: every processed row whose Volume_Ratio is a number has
\* Confidence High when the ratio exceeds 1 and Low otherwise.
C13_Original ==
    \A j \in 1 .. k :
        ~IsNaN(frame[j].Volume_Ratio) =>
            frame[j].Confidence =
                IF RGt(frame[j].Volume_Ratio, One) THEN "High" ELSE "Low"

\* C13: every processed row whose Volume_Ratio, E, T_reversal and
\* Dominant_Period are all numbers has Confidence High when the ratio
\* exceeds 1 and Low otherwise, whatever Signal the row got.
C13_ConfidenceFromVolume ==
    \A j \in 1 .. k :
        (~IsNaN(frame[j].Volume_Ratio) /\ ~Undefined(frame[j])) =>
            frame[j].Confidence =
                IF RGt(frame[j].Volume_Ratio, One) THEN "High" ELSE "Low"

\* A finished run with a HOLD row of ratio exactly 1 (Low) after the window
\* filled.
C13_Witness ==
    /\ sigpc = "done"
    /\ \E j \in 1 .. k :
          /\ ~Undefined(frame[j])
          /\ frame[j].Volume_Ratio = One
          /\ frame[j].Signal = "HOLD"
          /\ frame[j].Confidence = "Low"

(***************************************************************************)
(* Properties of the statistics of simulate_trades.                        *)
(***************************************************************************)
\* The sum of net_pnl over the trades of ts with positive (wins = TRUE) or
\* non-positive (wins = FALSE) net_pnl.
RECURSIVE SumSide(_, _)
SumSide(ts, wins) ==
    IF ts = <<>>
    THEN Zero
    ELSE IF RGt(ts[1].net_pnl, Zero) = wins
         THEN RAdd(ts[1].net_pnl, SumSide(Tail(ts), wins))
         ELSE SumSide(Tail(ts), wins)

HasStats == pc = "done" /\ result.total_trades > 0

\* C20 as stated: in a result with completed trades profit_factor is
\* infinite exactly when there is no losing trade and at least one winning
\* trade, and otherwise it is |sum of wins / sum of losses|.
C20_Original ==
    HasStats =>
        IF result.losing_trades = 0 /\ result.winning_trades >= 1
        THEN result.profit_factor = Inf
        ELSE /\ result.profit_factor # Inf
             /\ result.profit_factor =
                    RAbs(RDiv(SumSide(result.trades, TRUE),
                              SumSide(result.trades, FALSE)))

(***************************************************************************)
(* Properties of the indicators and of the pipeline.                       *)
(***************************************************************************)
\* calculate_vwap_and_deviation has returned.
VwapDone == indpc \in {"fft", "fftloop", "done"}

\* The FFT loop has passed the 1-based row j.
FftPassed(j) == indpc = "done" \/ (indpc = "fftloop" /\ j < fi)

\* The closes of the window of length period that ends at the row j are
\* all equal.
FlatWindow(j, period) ==
    \A m \in j - period + 1 .. j : frame[m].close = frame[j].close

VwapDefined(r) ==
    /\ IsFinite(r.Z_prime)
    /\ IsFinite(r.Deviation)
    /\ IsFinite(r.Sigma)
    /\ IsFinite(r.E)

FftUndefined(r) ==
    /\ IsNaN(r.Dominant_Period)
    /\ IsNaN(r.Phase_Rad)
    /\ IsNaN(r.T_reversal)
    /\ IsNaN(r.Spectral_Power)

\* C14: once both indicator functions have returned, the row of every bar
\* before W - 1 has NaN in Z_prime, Deviation, Sigma and E, the row of every
\* bar before P - 1 has NaN in Dominant_Period, Phase_Rad, T_reversal and
\* Spectral_Power, and from the bar window - 1 on the fields are numbers
\* (for positive window volume and positive Sigma; for a window that is not
\* flat).
C14_WarmUpUndefined ==
    indpc = "done" =>
        \A j \in 1 .. Len(frame) :
            /\ j < args.vwap_period =>
                   /\ IsNaN(frame[j].Z_prime)
                   /\ IsNaN(frame[j].Deviation)
                   /\ IsNaN(frame[j].Sigma)
                   /\ IsNaN(frame[j].E)
            /\ j < args.fft_period => FftUndefined(frame[j])
            /\ (/\ j >= args.vwap_period
                /\ SumVolume(frame, j - args.vwap_period + 1, j) > 0
                /\ ExceedsEpsilon(frame[j].Sigma)) => VwapDefined(frame[j])
            /\ (j >= args.fft_period /\ ~FlatWindow(j, args.fft_period)) =>
                   /\ IsFinite(frame[j].Dominant_Period)
                   /\ IsFinite(frame[j].Phase_Rad)
                   /\ IsFinite(frame[j].T_reversal)
                   /\ IsFinite(frame[j].Spectral_Power)

\* C15: after calculate_vwap_and_deviation Z_prime, Deviation and E of every
\* row are finite numbers; a row whose window is full and has volume sum 0
\* has Z_prime = close; a row whose Sigma is a number not greater than
\* epsilon has E = 0.
C15_DegenerateFallbacks ==
    VwapDone =>
        \A j \in 1 .. Len(frame) :
            /\ IsFinite(frame[j].Z_prime)
            /\ IsFinite(frame[j].Deviation)
            /\ IsFinite(frame[j].E)
            /\ (/\ j >= args.vwap_period
                /\ SumVolume(frame, j - args.vwap_period + 1, j) = 0) =>
                   frame[j].Z_prime = frame[j].close
            /\ (~IsNaN(frame[j].Sigma) /\ ~ExceedsEpsilon(frame[j].Sigma)) =>
                   frame[j].E = Zero

\* A frame with a full window of zero volume whose close differs from the
\* close before it, and with a full window of Sigma 0.
C15_Witness ==
    /\ VwapDone
    /\ \E j \in args.vwap_period .. Len(frame) :
          /\ SumVolume(frame, j - args.vwap_period + 1, j) = 0
          /\ frame[j].close # frame[j - 1].close
          /\ frame[j].Z_prime = frame[j].close
    /\ \E j \in args.vwap_period .. Len(frame) :
          /\ frame[j].Sigma = Zero
          /\ frame[j].E = Zero

\* The run is the one on the series with the drop.
IsDropRun ==
    /\ Len(frame) = DropScenario.bars
    /\ \A j \in 1 .. Len(frame) : frame[j].close = DropSeries[j].close

\* C16: on the series that is flat at 100 except for a close of 90 at bar
\* 100, with VWAP window 20, E at bar 100 is below -2.0, and every row from
\* bar 100 on that generate_signals_rolling has passed is not SELL and is
\* BUY when its deviation and timing conditions both hold.
C16_DropIsBuy ==
    (IsDropRun /\ sigpc \in {"loop", "done", "reported"}) =>
        /\ RLt(frame[DropScenario.drop_bar + 1].E, RNeg(sigma_threshold))
        /\ \A j \in DropScenario.drop_bar + 1 .. k :
              /\ frame[j].Signal # "SELL"
              /\ (frame[j].Deviation_Signal /\ frame[j].Timing_Signal) =>
                     (frame[j].Signal = "BUY" /\ frame[j].Direction = "Long")

\* The run on the drop series has ended with BUY at bar 100.
C16_Witness ==
    /\ IsDropRun
    /\ sigpc = "done"
    /\ frame[DropScenario.drop_bar + 1].Deviation_Signal
    /\ frame[DropScenario.drop_bar + 1].Timing_Signal
    /\ frame[DropScenario.drop_bar + 1].Signal = "BUY"

\* C17: once calculate_fft_phase has returned, every row whose trailing
\* window of P closes is flat has NaN in Dominant_Period, Phase_Rad,
\* T_reversal and Spectral_Power.
C17_FlatWindowSkipped ==
    indpc = "done" =>
        \A j \in args.fft_period .. Len(frame) :
            FlatWindow(j, args.fft_period) => FftUndefined(frame[j])

\* C18 as stated: on the sinusoid of period 50 every row from bar 63 on that
\* the FFT loop has passed has a Dominant_Period within 50 +/- 2.
C18_Original ==
    \A j \in args.fft_period .. Len(frame) :
        FftPassed(j) =>
            /\ IsFinite(frame[j].Dominant_Period)
            /\ RGe(frame[j].Dominant_Period, R(SineScenario.period - 2))
            /\ RLe(frame[j].Dominant_Period, R(SineScenario.period + 2))

\* C18: on the sinusoid of period 50 analysed with the FFT window 64 every
\* row from bar 63 on that the FFT loop has passed has Dominant_Period 64,
\* the period of bin 1 of the window, and every earlier row has NaN.
C18_DominantPeriodIsBinOne ==
    \A j \in 1 .. Len(frame) :
        FftPassed(j) =>
            IF j >= args.fft_period
            THEN /\ frame[j].Dominant_Period = R(args.fft_period)
                 /\ frame[j].Dominant_Freq = <<1, args.fft_period>>
            ELSE IsNaN(frame[j].Dominant_Period)

\* calculate_fft_phase has returned on the sinusoid with the period of bin 1
\* in its first and its last full window.
C18_Witness ==
    /\ indpc = "done"
    /\ Len(frame) = SineScenario.bars
    /\ frame[SineScenario.fft_period].Dominant_Period
           = R(SineScenario.fft_period)
    /\ frame[SineScenario.bars].Dominant_Period = R(SineScenario.fft_period)
    /\ RGt(frame[SineScenario.bars].Spectral_Power, R(4))

\* The run is the one on the flat series.
IsFlatRun ==
    /\ Len(frame) = FlatScenario.bars
    /\ \A j \in 1 .. Len(frame) :
          /\ frame[j].close = R(FlatScenario.close)
          /\ frame[j].volume = FlatScenario.volume

\* C19: on 200 bars with close 100 and volume 100 the pipeline gives Sigma 0
\* on every bar where Sigma is a number (the bars from W - 1 on) and E 0 on
\* every bar, every row generate_signals_rolling has passed is HOLD, and
\* simulate_trades opens no trade and returns total_trades 0.
C19_FlatPipeline ==
    IsFlatRun =>
        /\ VwapDone =>
              \A j \in 1 .. Len(frame) :
                  /\ frame[j].E = Zero
                  /\ frame[j].Sigma =
                         IF j >= args.vwap_period THEN Zero ELSE NaN
        /\ \A j \in 1 .. k : frame[j].Signal = "HOLD"
        /\ trades = <<>>
        /\ pc = "done" => (result.total_trades = 0 /\ result.trades = <<>>)

\* The whole pipeline has run on the flat series.
C19_Witness ==
    /\ IsFlatRun
    /\ pc = "done"
    /\ k = FlatScenario.bars
    /\ i = FlatScenario.bars
    /\ frame[FlatScenario.bars].Sigma = Zero
    /\ frame[FlatScenario.bars].Signal = "HOLD"
    /\ result.total_trades = 0

(***************************************************************************)
(* Properties of the equity curve and of the account of simulate_trades.   *)
(***************************************************************************)
\* The value of the account at the close of a bar: the cash, plus the value
\* of a long position, minus the value of a short one.
MarkToMarket(pos, cap, size, price) ==
    IF pos = "NONE" THEN cap
    ELSE IF pos = "LONG" THEN RAdd(cap, RMul(size, price))
    ELSE RSub(cap, RMul(size, price))

\* C24 as stated: the returned equity curve has one value per bar, its
\* length is the number of bars.
C24_Original ==
    pc = "done" => Len(result.equity_curve) = n

\* C24: the equity curve is append-only; it starts as [initial_capital] and
\* gains exactly one value per bar, so after bar i (0-based) it holds i + 2
\* values, the returned curve holds len(df) + 1 values, element 0 is the
\* initial capital and element i + 1 is the value recorded for bar i, which
\* on a bar the confidence filter does not skip is the account value after
\* the bar.
C24_EquityCurveSeeded ==
    [][/\ Len(equity_curve') = i' + 1
       /\ equity_curve'[1] = initial_capital
       /\ \A j \in 1 .. Len(equity_curve) : equity_curve'[j] = equity_curve[j]
       /\ BarStep => Len(equity_curve') = Len(equity_curve) + 1
       /\ (BarStep /\ ~FilterSkips(df'[i'].Signal, df'[i'].Confidence))
             => equity_curve'[i' + 1] =
                    MarkToMarket(position', capital', position_size',
                                 df'[i'].close)
       /\ pc' = "done" =>
             /\ result'.equity_curve = equity_curve'
             /\ Len(result'.equity_curve) = n + 1]_vars

\* A run of at least two bars has returned a curve in which a bar with an
\* open position was marked to market.
C24_Witness ==
    /\ pc = "done"
    /\ n >= 2
    /\ Len(result.equity_curve) = n + 1
    /\ result.equity_curve[1] = initial_capital
    /\ result.total_trades > 0
    /\ \E j \in 2 .. n + 1 : result.equity_curve[j] # initial_capital

\* C30: when simulate_trades has returned, the last value of the returned
\* equity curve equals the returned final_capital, also when the run ended
\* with the forced close of the open position at the last price.
C30_LastEquityIsFinalCapital ==
    pc = "done" => Last(result.equity_curve) = result.final_capital

\* The sum of net_pnl over the trades closed so far.
ClosedNetPnl == SumNetPnl(SelectSeq(trades, HasExit))

\* C28: capital is conserved.  While the account is flat, and after the
\* forced close, capital = initial_capital + the sum of net_pnl of the
\* trades closed so far; the returned final_capital - initial_capital is the
\* sum of net_pnl over the returned trades, which is total_return.
C28_CapitalConserved ==
    /\ (position = "NONE" \/ pc \in {"stats", "done"})
          => RSub(capital, initial_capital) = ClosedNetPnl
    /\ pc = "done" =>
          /\ RSub(result.final_capital, initial_capital)
                 = SumNetPnl(result.trades)
          /\ result.total_trades > 0 =>
                /\ result.total_return = SumNetPnl(result.trades)
                /\ RSub(result.final_capital, result.initial_capital)
                       = result.total_return

\* A run has returned two trades, a long and a short, the second one
\* closed at the end of the data, and the capital has changed.
C28_Witness ==
    /\ pc = "done"
    /\ result.total_trades = 2
    /\ result.trades[1].position # result.trades[2].position
    /\ result.trades[2].exit_reason = "End of Data"
    /\ result.final_capital # initial_capital
    /\ RSub(result.final_capital, result.initial_capital)
           = RAdd(result.trades[1].net_pnl, result.trades[2].net_pnl)

\* The number of trades that have their exit fields.
NumClosed(ts) == Cardinality({j \in 1 .. Len(ts) : HasExit(ts[j])})

\* The trades are in chronological order and do not overlap.
Chronological(ts) ==
    /\ \A j \in 1 .. Len(ts) :
          HasExit(ts[j]) => ts[j].entry_bar <= ts[j].exit_bar
    /\ \A j \in 1 .. Len(ts) - 1 :
          /\ HasExit(ts[j])
          /\ ts[j].exit_bar < ts[j + 1].entry_bar

\* C29: a bar makes at most one position transition.  A bar that starts
\* flat may open one trade, on that bar, and closes none; a bar that starts
\* with an open position may close it, on that bar and after its entry bar,
\* and opens none.  After every step each closed trade has entry_bar <=
\* exit_bar and each trade's exit_bar is less than the next trade's
\* entry_bar.
C29_OneTransitionPerBar ==
    [][/\ (BarStep /\ position = "NONE") =>
             /\ NumClosed(trades') = NumClosed(trades)
             /\ Len(trades') \in {Len(trades), Len(trades) + 1}
             /\ Len(trades') = Len(trades) + 1 =>
                   /\ position' # "NONE"
                   /\ Last(trades').entry_bar = i
                   /\ ~HasExit(Last(trades'))
             /\ Len(trades') = Len(trades) => position' = "NONE"
       /\ (BarStep /\ position # "NONE") =>
             /\ Len(trades') = Len(trades)
             /\ position' \in {position, "NONE"}
             /\ NumClosed(trades') = NumClosed(trades)
                    + (IF position' = "NONE" THEN 1 ELSE 0)
             /\ position' = "NONE" =>
                   /\ Last(trades').exit_bar = i
                   /\ Last(trades').entry_bar < i
       /\ Chronological(trades')]_vars

\* A run has returned at least two trades: the second was opened on the bar
\* after the first was closed, and the last one was opened on the last bar
\* and closed at the end of the data.
C29_Witness ==
    /\ pc = "done"
    /\ Len(result.trades) >= 2
    /\ result.trades[1].exit_bar + 1 = result.trades[2].entry_bar
    /\ Last(result.trades).exit_reason = "End of Data"
    /\ Last(result.trades).entry_bar = Last(result.trades).exit_bar

(***************************************************************************)
(* Properties of calculate_advanced_metrics and of the backtest report.    *)
(***************************************************************************)
\* The metrics that are floats.
FloatMetrics == DOMAIN advanced_metrics \ {"max_drawdown_duration"}

\* C25: for every result of simulate_trades, every metric returned by
\* calculate_advanced_metrics is a finite number (no division by zero has
\* produced NaN or an infinity), the Sharpe ratio is 0 when the standard
\* deviation of the per-bar returns is 0, and the Calmar ratio and the
\* recovery factor are 0 when the maximum drawdown is 0.
C25_MetricsFinite ==
    pc = "metrics" =>
        /\ \A key \in FloatMetrics : IsFinite(advanced_metrics[key])
        /\ (result.total_trades > 0
               /\ Std(Returns(result.equity_curve)) = Zero)
              => advanced_metrics.sharpe_ratio = Zero
        /\ advanced_metrics.max_drawdown_pct = Zero =>
              /\ advanced_metrics.calmar_ratio = Zero
              /\ advanced_metrics.recovery_factor = Zero

\* C22: the backtest of a series on which no trade is opened runs through
\* simulate_trades, calculate_advanced_metrics and the printing of the
\* report without raising, and gives a summary with total_trades = 0.
C22_ZeroTradeBacktestCompletes ==
    (pc \in {"printed", "raised"} /\ trades = <<>>) =>
        /\ result.total_trades = 0
        /\ pc = "printed"
        /\ returned.kind # "raised"

(***************************************************************************)
(* Properties of run_oracle_analysis and of its callers.                   *)
(***************************************************************************)
\* The fetch has returned None or an empty frame.
FetchedNoSeries == fetched = None \/ fetched = DataFrame(<<>>)

\* C21: when the fetch returns None or an empty frame, the step that
\* follows the fetch returns (None, None, None) and raises nothing, it
\* starts no indicator, signal or backtest computation, and no step of
\* run_oracle_analysis (no second fetch either) follows that return: the
\* only step left is analyze_symbol handing the None to its own caller.
C21_NoDataIsTerminal ==
    [][/\ (runpc = "fetch" /\ FetchedNoSeries) =>
             /\ runpc' = "returned"
             /\ returned' = NoneTriple
             /\ indpc' = "idle"
             /\ sigpc' = "idle"
             /\ pc' = "idle"
             /\ frame' = <<>>
             /\ oracle_output' = NoOutput
             /\ advanced_metrics' = NoMetrics
             /\ fetched' = fetched
       /\ (runpc = "returned" /\ FetchedNoSeries) =>
             /\ entry = "analyze_symbol"
             /\ runpc' = "api_returned"
             /\ returned' = None
             /\ UNCHANGED <<frame, indpc, sigpc, pc, oracle_output,
                            advanced_metrics, fetched>>]_vars

\* run_oracle_analysis has returned after a fetch that gave an empty frame.
C21_Witness ==
    /\ fetched = DataFrame(<<>>)
    /\ runpc = "returned"
    /\ returned = NoneTriple
    /\ indpc = "idle"

\* The configurations the specification calls invalid.
InvalidConfig(c) ==
    \/ RLe(c.SIGMA_THRESHOLD, Zero)
    \/ c.VWAP_PERIOD <= 0
    \/ c.FFT_PERIOD <= 0

\* C23: a configuration with a non-positive sigma threshold or with a VWAP
\* or FFT window <= 0 is rejected by validate_config, and on both entry
\* paths the rejection comes before run_oracle_analysis is called, so
\* before any indicator computation: the run never gets past its start
\* other than into the rejected state.
C23_InvalidConfigRejected ==
    InvalidConfig(config) => runpc \in {"start", "rejected"}

\* The columns test_oracle reads from the latest row of the frame of
\* analyze_symbol (test_system.py lines 82-85 and 88).
RequiredColumns == {"vwap", "deviation", "signal", "volume_ratio", "phase"}

\* analyze_symbol has returned a frame with at least one row.
ReturnedRows ==
    /\ entry = "analyze_symbol"
    /\ runpc = "api_returned"
    /\ returned.kind = "frame"
    /\ returned.frame # <<>>

\* C26: whenever analyze_symbol returns a non-empty frame, the latest row of
\* that frame has the columns vwap, deviation, signal, volume_ratio and
\* phase.
C26_RequiredColumnsPresent ==
    ReturnedRows =>
        RequiredColumns \subseteq DOMAIN returned.frame[Len(returned.frame)]

\* The confidence the volume ratio of a row alone gives: N/A while the
\* ratio or an indicator of the row is undefined, else High above 1.0 and
\* Low otherwise.
VolumeConfidence(r) ==
    IF IsNaN(r.Volume_Ratio) \/ Undefined(r) THEN "N/A"
    ELSE IF RGt(r.Volume_Ratio, One) THEN "High"
    ELSE "Low"

\* C27: in the frame run_oracle_analysis returns, with or without the trend
\* analysis, the confidence of every bar is the one its own volume ratio
\* gives, whatever the signal of the bar and whatever the other bars are.
C27_ConfidenceFromVolumeAlone ==
    (runpc = "returned" /\ returned.kind = "tuple"
        /\ returned.data_df.kind = "frame") =>
        \A j \in 1 .. Len(returned.data_df.frame) :
            returned.data_df.frame[j].Confidence
                = VolumeConfidence(returned.data_df.frame[j])

====
